---- MODULE Spec2Model ----
(***************************************************************************)
(* Scene composition engine of oferrun/canva_killer: the palette helpers   *)
(* of scene-builder.ts, the placeholder resolver, the operation handlers   *)
(* and the sequential pipeline of executeOperations.                       *)
(*                                                                         *)
(* Representation.  A JavaScript string that the code takes apart (a hex   *)
(* colour, a font family, a parameter that may be a placeholder) is a      *)
(* sequence of chunks, each chunk a TLA+ string; concatenation is \o.      *)
(* Names that the code only compares or copies (layer names, ids, style    *)
(* tokens) are TLA+ strings.  A thrown exception is a record               *)
(* [name, message]; an operator that can throw returns a record with an    *)
(* ok field.                                                               *)
(***************************************************************************)
EXTENDS Integers, Sequences, FiniteSets, TLC

VARIABLES
  operations,       \* the Operation[] argument of executeOperations
  pc,               \* position of the run inside executeOperations
  idx,              \* position (1-based) of the for-of loop in operations
  context,          \* the ExecutionContext of the run
  resolvedParams,   \* resolvedParams of the step in progress
  error,            \* the exception caught by the catch block, or NoError
  sent,             \* every message handed to ws.send, in order
  events,           \* history: handler invocations, returns, recorded outputs
  idSeq,            \* number of ids generateId has produced so far
  googleFontCache,  \* the process-wide googleFontCache map
  hist              \* history of direct calls of the palette/resolver functions

vars == <<operations, pc, idx, context, resolvedParams, error, sent, events,
          idSeq, googleFontCache, hist>>

(***************************************************************************)
(* Bounds of the model.                                                    *)
(***************************************************************************)
MaxCalls == 2        \* direct calls of a palette function in one behaviour

(***************************************************************************)
(* Program constants.                                                      *)
(***************************************************************************)
MaxColors == 16
MaxFonts == 8
NaN == -1            \* the result of parseInt on a string with no leading digit

NoError == [name |-> "", message |-> ""]
ValidationError(msg) == [name |-> "ValidationError", message |-> msg]
OpReferenceError(msg) == [name |-> "ReferenceError", message |-> msg]
FileSystemError(msg) == [name |-> "FileSystemError", message |-> msg]
PlainError(msg) == [name |-> "Error", message |-> msg]

(***************************************************************************)
(* JavaScript values of operation parameters and step outputs.  An object  *)
(* is the sequence of its own entries [key, value] in insertion order.     *)
(***************************************************************************)
JUndefined == [kind |-> "undefined"]
JNull == [kind |-> "null"]
JBool(b) == [kind |-> "boolean", bool |-> b]
JNum(n) == [kind |-> "number", num |-> n]
JStr(chunks) == [kind |-> "string", chars |-> chunks]
JArr(items) == [kind |-> "array", items |-> items]
JObj(entries) == [kind |-> "object", entries |-> entries]

\* ToBoolean(v) = false.
Falsy(v) ==
  \/ v.kind \in {"undefined", "null"}
  \/ v.kind = "boolean" /\ ~v.bool
  \/ v.kind = "number" /\ "num" \in DOMAIN v /\ v.num = 0
  \/ v.kind = "number" /\ "nan" \in DOMAIN v
  \/ v.kind = "string" /\ v.chars = <<>>
Truthy(v) == ~Falsy(v)

\* obj[key], undefined when obj has no such own property.
Get(obj, key) ==
  IF \E i \in 1..Len(obj.entries) : obj.entries[i].key = key
  THEN obj.entries[CHOOSE i \in 1..Len(obj.entries) : obj.entries[i].key = key].value
  ELSE JUndefined

\* A destructuring default: `name = dflt` applies when the property is undefined.
GetOr(obj, key, dflt) == IF Get(obj, key) = JUndefined THEN dflt ELSE Get(obj, key)

(***************************************************************************)
(* Characters.                                                             *)
(***************************************************************************)
Digits == <<"0", "1", "2", "3", "4", "5", "6", "7", "8", "9">>
UpperHex == <<"A", "B", "C", "D", "E", "F">>
LowerHex == <<"a", "b", "c", "d", "e", "f">>

IndexOf(seq, x) == IF \E i \in 1..Len(seq) : seq[i] = x
                   THEN CHOOSE i \in 1..Len(seq) : seq[i] = x
                   ELSE 0

\* Value of one character as a base-16 digit, NaN when it is none.
HexDigitValue(ch) ==
  IF IndexOf(Digits, ch) > 0 THEN IndexOf(Digits, ch) - 1
  ELSE IF IndexOf(UpperHex, ch) > 0 THEN 9 + IndexOf(UpperHex, ch)
  ELSE IF IndexOf(LowerHex, ch) > 0 THEN 9 + IndexOf(LowerHex, ch)
  ELSE NaN

IsHexDigit(ch) ==
  IndexOf(Digits, ch) > 0 \/ IndexOf(UpperHex, ch) > 0 \/ IndexOf(LowerHex, ch) > 0

\* parseInt(s, 16): the value of the longest prefix of hex digits, NaN when
\* that prefix is empty.
RECURSIVE HexPrefixValue(_, _)
HexPrefixValue(s, acc) ==
  IF s = <<>> \/ ~IsHexDigit(Head(s)) THEN acc
  ELSE HexPrefixValue(Tail(s), 16 * acc + HexDigitValue(Head(s)))

parseInt16(s) ==
  IF s = <<>> \/ ~IsHexDigit(Head(s)) THEN NaN ELSE HexPrefixValue(s, 0)

\* JavaScript === on numbers: NaN equals nothing, itself included.
StrictEq(x, y) == x # NaN /\ y # NaN /\ x = y

UpperLetters == <<"A", "B", "C", "D", "E", "F", "G", "H", "I", "J", "K", "L", "M",
                  "N", "O", "P", "Q", "R", "S", "T", "U", "V", "W", "X", "Y", "Z">>
LowerLetters == <<"a", "b", "c", "d", "e", "f", "g", "h", "i", "j", "k", "l", "m",
                  "n", "o", "p", "q", "r", "s", "t", "u", "v", "w", "x", "y", "z">>

\* String.prototype.toLowerCase, character by character.
toLowerCase(s) ==
  [i \in 1..Len(s) |->
     IF IndexOf(UpperLetters, s[i]) > 0
     THEN LowerLetters[IndexOf(UpperLetters, s[i])]
     ELSE s[i]]

\* generateId(prefix) with n standing for what Date.now() and Math.random()
\* contribute.  The pipeline (Spec) numbers the ids of a run, so that none
\* repeats; SpecIds lets the clock stand still and the random digits repeat.
generateId(prefix, n) == prefix \o "_" \o ToString(n)

(***************************************************************************)
(* hexToRGBA.  The alpha channel is kept as the numerator of a/255 (the    *)
(* 6-digit form's a = 1 is 255); x/255 is injective on the parsed bytes.   *)
(***************************************************************************)
StripHash(hex) == IF Len(hex) > 0 /\ hex[1] = "#" THEN Tail(hex) ELSE hex

hexToRGBA(color) ==
  LET hex == StripHash(color) IN
  IF Len(hex) = 6
  THEN [ok |-> TRUE,
        r |-> parseInt16(SubSeq(hex, 1, 2)),
        g |-> parseInt16(SubSeq(hex, 3, 4)),
        b |-> parseInt16(SubSeq(hex, 5, 6)),
        a |-> 255,
        error |-> NoError]
  ELSE IF Len(hex) = 8
  THEN [ok |-> TRUE,
        r |-> parseInt16(SubSeq(hex, 1, 2)),
        g |-> parseInt16(SubSeq(hex, 3, 4)),
        b |-> parseInt16(SubSeq(hex, 5, 6)),
        a |-> parseInt16(SubSeq(hex, 7, 8)),
        error |-> NoError]
  ELSE [ok |-> FALSE, r |-> NaN, g |-> NaN, b |-> NaN, a |-> NaN,
        error |-> ValidationError("Invalid hex color")]

(***************************************************************************)
(* ensureColorInTheme(theme, color).  n is the number of ids generated so  *)
(* far.  The result carries the theme after the call and how many ids the  *)
(* call generated.                                                         *)
(***************************************************************************)
\* Mutant: the entries are compared as objects (c === rgba), never equal.
SameColorByIdentity(c, rgba) == FALSE

SameColor(c, rgba) ==
  /\ StrictEq(c.r, rgba.r) /\ StrictEq(c.g, rgba.g)
  /\ StrictEq(c.b, rgba.b) /\ StrictEq(c.a, rgba.a)

\* Array.prototype.find: index of the first match, 0 for undefined.
FindColor(palette, rgba) ==
  IF \E i \in 1..Len(palette) : SameColor(palette[i], rgba)
  THEN CHOOSE i \in 1..Len(palette) :
         /\ SameColor(palette[i], rgba)
         /\ \A j \in 1..(i - 1) : ~SameColor(palette[j], rgba)
  ELSE 0

\* Mutant: the limit check is off by one.
ColorLimitExceeded(palette) == Len(palette) > MaxColors

ColorLimitReached(palette) == Len(palette) >= MaxColors

ensureColorInTheme(theme, color, n) ==
  LET rgba == hexToRGBA(color)
      found == FindColor(theme.color_palette, rgba)
      colorId == generateId("color", n + 1)
  IN
  IF ~rgba.ok
  THEN [ok |-> FALSE, id |-> "", theme |-> theme, ids |-> 0, error |-> rgba.error]
  ELSE IF found > 0
  THEN [ok |-> TRUE, id |-> theme.color_palette[found].id, theme |-> theme,
        ids |-> 0, error |-> NoError]
  ELSE IF ColorLimitReached(theme.color_palette)
  THEN [ok |-> FALSE, id |-> "", theme |-> theme, ids |-> 0,
        error |-> ValidationError("Color palette limit reached (max 16 colors)")]
  ELSE [ok |-> TRUE, id |-> colorId,
        theme |-> [theme EXCEPT !.color_palette =
                     Append(@, [id |-> colorId,
                                name |-> "color_" \o ToString(Len(@) + 1),
                                r |-> rgba.r, g |-> rgba.g,
                                b |-> rgba.b, a |-> rgba.a])],
        ids |-> 1, error |-> NoError]

(***************************************************************************)
(* isGoogleFont, getFontUrl, ensureFontInTheme.  fetch is the answer of    *)
(* the HEAD request: "ok" (response.ok), "notok" or "error" (it rejects).  *)
(***************************************************************************)
IsWhitespace(ch) == ch = " "

\* fontName.replace(/\s+/g, '+'): every maximal run of whitespace becomes one '+'.
RECURSIVE ReplaceWhitespace(_)
ReplaceWhitespace(s) ==
  IF s = <<>> THEN <<>>
  ELSE IF IsWhitespace(Head(s))
  THEN IF Len(s) > 1 /\ IsWhitespace(s[2])
       THEN ReplaceWhitespace(Tail(s))
       ELSE <<"+">> \o ReplaceWhitespace(Tail(s))
  ELSE <<Head(s)>> \o ReplaceWhitespace(Tail(s))

GoogleFontUrl(fontName) ==
  <<"https://fonts.googleapis.com/css2?family=">> \o ReplaceWhitespace(fontName)
    \o <<":wght@400;700&display=swap">>

\* A JavaScript Map: the entries [key, value] in insertion order.
MapHas(m, key) == \E i \in 1..Len(m) : m[i].key = key
MapGet(m, key) == m[CHOOSE i \in 1..Len(m) : m[i].key = key].value
MapSet(m, key, value) ==
  IF MapHas(m, key)
  THEN [i \in 1..Len(m) |->
          IF m[i].key = key THEN [key |-> key, value |-> value] ELSE m[i]]
  ELSE Append(m, [key |-> key, value |-> value])

isGoogleFont(fontName, cache, fetch) ==
  LET key == toLowerCase(fontName) IN
  IF MapHas(cache, key)
  THEN [available |-> MapGet(cache, key), cache |-> cache]
  ELSE IF fetch = "error"
  THEN [available |-> FALSE, cache |-> MapSet(cache, key, FALSE)]
  ELSE [available |-> (fetch = "ok"), cache |-> MapSet(cache, key, fetch = "ok")]

getFontUrl(fontName, cache, fetch) ==
  LET g == isGoogleFont(fontName, cache, fetch) IN
  [url |-> IF g.available THEN GoogleFontUrl(fontName)
           ELSE <<"fonts/">> \o fontName \o <<".otf">>,
   cache |-> g.cache]

\* Mutant: the family names are compared case-sensitively.
SameFamilyExact(f, fontName) == f.font_name = fontName

SameFamily(f, fontName) == toLowerCase(f.font_name) = toLowerCase(fontName)

FindFont(palette, fontName) ==
  IF \E i \in 1..Len(palette) : SameFamily(palette[i], fontName)
  THEN CHOOSE i \in 1..Len(palette) :
         /\ SameFamily(palette[i], fontName)
         /\ \A j \in 1..(i - 1) : ~SameFamily(palette[j], fontName)
  ELSE 0

\* Mutant: the limit check is off by one.
FontLimitExceeded(palette) == Len(palette) > MaxFonts

FontLimitReached(palette) == Len(palette) >= MaxFonts

ensureFontInTheme(theme, fontName, n, cache, fetch) ==
  LET found == FindFont(theme.font_palette, fontName)
      fontId == generateId("font", n + 1)
      u == getFontUrl(fontName, cache, fetch)
  IN
  IF found > 0
  THEN [ok |-> TRUE, id |-> theme.font_palette[found].font_id, theme |-> theme,
        ids |-> 0, cache |-> cache, error |-> NoError]
  ELSE IF FontLimitReached(theme.font_palette)
  THEN [ok |-> FALSE, id |-> "", theme |-> theme, ids |-> 0, cache |-> cache,
        error |-> ValidationError("Font palette limit reached (max 8 fonts)")]
  ELSE [ok |-> TRUE, id |-> fontId,
        theme |-> [theme EXCEPT !.font_palette =
                     Append(@, [font_id |-> fontId, font_name |-> fontName,
                                font_url |-> u.url])],
        ids |-> 1, cache |-> u.cache, error |-> NoError]

(***************************************************************************)
(* resolveParameters(params, context): only context.operationOutputs is    *)
(* read.  The result is [ok, value, error]; ok = FALSE is a throw.         *)
(***************************************************************************)
PlaceholderPrefix == "$output_of_step_"

IsDigit(ch) == IndexOf(Digits, ch) > 0

\* params.match(/^\$output_of_step_(\d+)$/)
IsPlaceholder(chars) ==
  /\ Len(chars) >= 2
  /\ chars[1] = PlaceholderPrefix
  /\ \A i \in 2..Len(chars) : IsDigit(chars[i])

\* parseInt(digits, 10)
RECURSIVE parseInt10(_)
parseInt10(digits) ==
  IF digits = <<>> THEN 0
  ELSE 10 * parseInt10(SubSeq(digits, 1, Len(digits) - 1))
         + (IndexOf(Digits, digits[Len(digits)]) - 1)

\* Mutant: the step number is used as an index into the list of steps.
OutputOfStepByIndex(outputs, stepNum) ==
  IF MapHas(outputs, JNum(stepNum - 1)) THEN MapGet(outputs, JNum(stepNum - 1))
  ELSE JUndefined

\* context.operationOutputs.get(stepNum)
OutputOfStep(outputs, stepNum) ==
  IF MapHas(outputs, JNum(stepNum)) THEN MapGet(outputs, JNum(stepNum))
  ELSE JUndefined

RECURSIVE resolveParameters(_, _), ResolveItems(_, _), ResolveEntries(_, _)

resolveParameters(params, outputs) ==
  IF params.kind = "string"
  THEN IF IsPlaceholder(params.chars)
       THEN LET stepNum == parseInt10(Tail(params.chars))
                output == OutputOfStep(outputs, stepNum)
            IN IF output = JUndefined
               THEN [ok |-> FALSE, value |-> JUndefined,
                     error |-> ValidationError("No output found for step "
                                                 \o ToString(stepNum))]
               ELSE [ok |-> TRUE, value |-> output, error |-> NoError]
       ELSE [ok |-> TRUE, value |-> params, error |-> NoError]
  ELSE IF params.kind = "array"
  THEN LET r == ResolveItems(params.items, outputs) IN
       [ok |-> r.ok, value |-> IF r.ok THEN JArr(r.items) ELSE JUndefined,
        error |-> r.error]
  ELSE IF params.kind = "object"
  THEN LET r == ResolveEntries(params.entries, outputs) IN
       [ok |-> r.ok, value |-> IF r.ok THEN JObj(r.items) ELSE JUndefined,
        error |-> r.error]
  ELSE [ok |-> TRUE, value |-> params, error |-> NoError]

\* params.map(item => resolveParameters(item, context)): left to right, the
\* first throw ends it.
ResolveItems(items, outputs) ==
  IF items = <<>> THEN [ok |-> TRUE, items |-> <<>>, error |-> NoError]
  ELSE LET first == resolveParameters(Head(items), outputs) IN
       IF ~first.ok THEN [ok |-> FALSE, items |-> <<>>, error |-> first.error]
       ELSE LET rest == ResolveItems(Tail(items), outputs) IN
            IF ~rest.ok THEN rest
            ELSE [ok |-> TRUE, items |-> <<first.value>> \o rest.items,
                  error |-> NoError]

\* for (const [key, value] of Object.entries(params)) resolved[key] = ...
\* resolved is an object literal: the assignment resolved["__proto__"] = v
\* calls the setter of Object.prototype and creates no own property.
ResolveEntries(entries, outputs) ==
  IF entries = <<>> THEN [ok |-> TRUE, items |-> <<>>, error |-> NoError]
  ELSE LET first == resolveParameters(Head(entries).value, outputs) IN
       IF ~first.ok THEN [ok |-> FALSE, items |-> <<>>, error |-> first.error]
       ELSE LET rest == ResolveEntries(Tail(entries), outputs) IN
            IF ~rest.ok THEN rest
            ELSE [ok |-> TRUE,
                  items |-> (IF Head(entries).key = "__proto__" THEN <<>>
                             ELSE <<[key |-> Head(entries).key, value |-> first.value]>>)
                              \o rest.items,
                  error |-> NoError]

FetchOutcomes == {"ok", "notok", "error"}

(***************************************************************************)
(* Numbers and template strings of the handlers.  A number that is not an  *)
(* integer is a multiple of one half (the anchor formula halves) or of one *)
(* tenth (an opacity); it is kept as [twice] or [tenths].                  *)
(***************************************************************************)
JHalves(twice) == IF twice % 2 = 0 THEN JNum(twice \div 2)
                  ELSE [kind |-> "number", twice |-> twice]
JTenths(tenths) == IF tenths % 10 = 0 THEN JNum(tenths \div 10)
                   ELSE [kind |-> "number", tenths |-> tenths]

JNaN == [kind |-> "number", nan |-> TRUE]

IsInteger(v) == v.kind = "number" /\ "num" \in DOMAIN v

Abs(n) == IF n < 0 THEN -n ELSE n

\* String(v) as chunks, as a template literal `${v}` writes it.
ToChunks(v) ==
  IF v.kind = "string" THEN v.chars
  ELSE IF v.kind = "number"
  THEN IF "num" \in DOMAIN v THEN <<ToString(v.num)>>
       ELSE IF "nan" \in DOMAIN v THEN <<"NaN">>
       ELSE IF "twice" \in DOMAIN v
       THEN <<(IF v.twice < 0 THEN "-" ELSE "") \o ToString(Abs(v.twice) \div 2), ".5">>
       ELSE <<(IF v.tenths < 0 THEN "-" ELSE "") \o ToString(Abs(v.tenths) \div 10),
              ".", ToString(Abs(v.tenths) % 10)>>
  ELSE IF v.kind = "boolean" THEN <<IF v.bool THEN "true" ELSE "false">>
  ELSE IF v.kind = "object" THEN <<"[object Object]">>
  ELSE <<v.kind>>

\* `${v}px`
Px(v) == JStr(ToChunks(v) \o <<"px">>)

\* typeof v === 'number' ? `${v}px` : v
PxIfNumber(v) == IF v.kind = "number" THEN Px(v) ELSE v

\* a || b
Or(a, b) == IF Truthy(a) THEN a ELSE b

\* An ElementStyle object: its entries in insertion order.
StyleSet(style, key, value) == MapSet(style, key, value)

(***************************************************************************)
(* calculateAnchorPosition on integer sizes and offsets; x and y are       *)
(* returned doubled, so that the halves stay integers.                     *)
(***************************************************************************)
Chars_center == <<"c", "e", "n", "t", "e", "r">>
Chars_top == <<"t", "o", "p">>
Chars_bottom == <<"b", "o", "t", "t", "o", "m">>
Chars_left == <<"l", "e", "f", "t">>
Chars_right == <<"r", "i", "g", "h", "t">>
Dash(a, b) == a \o <<"-">> \o b

\* Mutant: every anchor is treated as the top-left corner.
anchorAtCorner(anchor, canvasWidth, canvasHeight, elementWidth, elementHeight, offsetX, offsetY) ==
  [ok |-> TRUE, x2 |-> 2 * offsetX, y2 |-> 2 * offsetY, error |-> NoError]

calculateAnchorPosition(anchor, canvasWidth, canvasHeight, elementWidth, elementHeight, offsetX, offsetY) ==
  LET a == toLowerCase(anchor)
      cx == canvasWidth - elementWidth
      cy == canvasHeight - elementHeight
      pos(x2, y2) == [ok |-> TRUE, x2 |-> x2 + 2 * offsetX, y2 |-> y2 + 2 * offsetY,
                      error |-> NoError]
  IN
  IF a = Chars_center THEN pos(cx, cy)
  ELSE IF a = Dash(Chars_top, Chars_left) THEN pos(0, 0)
  ELSE IF a = Dash(Chars_top, Chars_center) THEN pos(cx, 0)
  ELSE IF a = Dash(Chars_top, Chars_right) THEN pos(2 * cx, 0)
  ELSE IF a = Dash(Chars_center, Chars_left) THEN pos(0, cy)
  ELSE IF a = Dash(Chars_center, Chars_right) THEN pos(2 * cx, cy)
  ELSE IF a = Dash(Chars_bottom, Chars_left) THEN pos(0, 2 * cy)
  ELSE IF a = Dash(Chars_bottom, Chars_center) THEN pos(cx, 2 * cy)
  ELSE IF a = Dash(Chars_bottom, Chars_right) THEN pos(2 * cx, 2 * cy)
  ELSE [ok |-> FALSE, x2 |-> 0, y2 |-> 0,
        error |-> ValidationError("Unknown anchor point")]

(***************************************************************************)
(* Operation handlers.  A handler takes the context, the resolved          *)
(* parameters, the number n of ids generated so far and, where it calls an *)
(* external capability, that capability's answer.  Its result is           *)
(* [threw, error, context, ids, cache, output]: the context as the handler *)
(* left it (also when it threw), the ids it generated, the font cache.     *)
(***************************************************************************)
Returned(ctx, output, ids, cache) ==
  [threw |-> FALSE, error |-> NoError, context |-> ctx, ids |-> ids,
   cache |-> cache, output |-> output]
Thrown(ctx, err, ids, cache) ==
  [threw |-> TRUE, error |-> err, context |-> ctx, ids |-> ids,
   cache |-> cache, output |-> JUndefined]

TypeError(msg) == [name |-> "TypeError", message |-> msg]

\* Mutant: the id is handed out and the palette is left as it was.
ensureColorNotKept(theme, v, n) ==
  IF v.kind = "string"
  THEN [ensureColorInTheme(theme, v.chars, n) EXCEPT !.theme = theme]
  ELSE [ok |-> FALSE, id |-> "", theme |-> theme, ids |-> 0,
        error |-> ValidationError("hex.replace is not a function")]

\* ensureColorInTheme on a parameter value: hex.replace exists on strings only.
ensureColorOfValue(theme, v, n) ==
  IF v.kind = "string" THEN ensureColorInTheme(theme, v.chars, n)
  ELSE [ok |-> FALSE, id |-> "", theme |-> theme, ids |-> 0,
        error |-> TypeError("hex.replace is not a function")]

\* ensureFontInTheme on a parameter value: fontName.toLowerCase exists on strings
\* only; with an empty palette find calls nothing and the push happens.
ensureFontOfValue(theme, v, n, cache, fetch) ==
  IF v.kind = "string" THEN ensureFontInTheme(theme, v.chars, n, cache, fetch)
  ELSE [ok |-> FALSE, id |-> "", theme |-> theme, ids |-> 0, cache |-> cache,
        error |-> TypeError("fontName.toLowerCase is not a function")]

handleCreateCanvas(ctx, params, n) ==
  LET width == Get(params, "width")
      height == Get(params, "height")
      background_color == Get(params, "background_color")
      ctx1 == [ctx EXCEPT !.template.canvas = [width |-> width, height |-> height]]
      c == ensureColorOfValue(ctx1.theme, background_color, n)
      bgElement == [element_id |-> generateId("elem", n + c.ids + 1),
                    element_type |-> "shape",
                    shape_type |-> "rectangle",
                    style |-> <<[key |-> "width", value |-> JStr(<<"100%">>)],
                                [key |-> "height", value |-> JStr(<<"100%">>)],
                                [key |-> "background_color", value |-> JStr(<<c.id>>)]>>]
      ctx2 == [ctx1 EXCEPT !.theme = c.theme,
                           !.template.elements = Append(@, bgElement)]
      output == JObj(<<[key |-> "width", value |-> width],
                       [key |-> "height", value |-> height]>>)
  IN
  IF Falsy(width) \/ Falsy(height)
  THEN Thrown(ctx, ValidationError("Canvas width and height are required"),
              0, googleFontCache)
  ELSE IF Truthy(background_color)
  THEN IF ~c.ok THEN Thrown(ctx1, c.error, 0, googleFontCache)
       ELSE Returned(ctx2, output, c.ids + 1, googleFontCache)
  ELSE Returned(ctx1, output, 0, googleFontCache)

handleAddImageLayer(ctx, params, n) ==
  LET layer_name == Get(params, "layer_name")
      input_image == Get(params, "input_image")
      x == GetOr(params, "x", JNum(0))
      y == GetOr(params, "y", JNum(0))
      width == Get(params, "width")
      height == Get(params, "height")
      dataItemId == generateId("data", n + 1)
      dataItem == [id |-> dataItemId, type |-> "image",
                   display_name |-> layer_name, image_url |-> input_image]
      elementId == generateId("elem", n + 2)
      style0 == <<[key |-> "position", value |-> JStr(<<"absolute">>)],
                  [key |-> "left", value |-> Px(x)],
                  [key |-> "top", value |-> Px(y)]>>
      style1 == IF Truthy(width) THEN StyleSet(style0, "width", PxIfNumber(width))
                ELSE style0
      style2 == IF Truthy(height) THEN StyleSet(style1, "height", PxIfNumber(height))
                ELSE style1
      element == [element_id |-> elementId, element_type |-> "data_item",
                  data_item_id |-> dataItemId, style |-> style2]
      ctx1 == [ctx EXCEPT !.data.data_items = Append(@, dataItem),
                              !.template.elements = Append(@, element),
                              !.layerMap = MapSet(@, layer_name, elementId)]
  IN
  IF Falsy(layer_name) \/ Falsy(input_image)
  THEN Thrown(ctx, ValidationError("layer_name and input_image are required"),
              0, googleFontCache)
  ELSE Returned(ctx1, JObj(<<[key |-> "elementId", value |-> JStr(<<elementId>>)],
                             [key |-> "dataItemId", value |-> JStr(<<dataItemId>>)]>>),
                2, googleFontCache)

\* `${n}` for the result of parseInt.
NumberChunk(n) == IF n = NaN THEN "NaN" ELSE ToString(n)

\* v < 1 on a number.
LessThanOne(v) ==
  /\ v.kind = "number"
  /\ IF "num" \in DOMAIN v THEN v.num < 1
     ELSE IF "nan" \in DOMAIN v THEN FALSE
     ELSE IF "twice" \in DOMAIN v THEN v.twice < 2
     ELSE v.tenths < 10

\* s.slice(from, to) on a string, 0-based, end exclusive.
Slice(chars, from, to) ==
  SubSeq(chars, from + 1, IF to < Len(chars) THEN to ELSE Len(chars))

\* The defaults of the destructuring and the "accept both" names.
TextValue(params) == Or(Get(params, "text"), Get(params, "text_content"))
FontValue(params) ==
  Or(Or(Get(params, "font"), Get(params, "font_name")), JStr(<<"A", "r", "i", "a", "l">>))
SizeValue(params) == Or(Or(Get(params, "size"), Get(params, "font_size")), JNum(16))
AlignValue(params) ==
  Or(Or(Get(params, "alignment"), Get(params, "text_align")), JStr(<<"left">>))
Black == JStr(<<"#", "0", "0", "0", "0", "0", "0">>)

\* Mutant: every text is placed by the default rule, whatever the anchor.
TextPlacementByDefault(params, position, numeric) ==
  [ok |-> TRUE, error |-> NoError,
   left |-> JStr(<<"50", "%">>), top |-> JStr(<<"50", "%">>),
   transform |-> JStr(<<"translate(-50%, -50%)">>)]

\* "Determine positioning strategy" with the anchor position already computed:
\* elementLeft, elementTop and elementTransform (undefined when there is none).
TextPlacement(params, position, numeric) ==
  LET x == Get(params, "x")
      y == Get(params, "y")
      anchor == Get(params, "anchor")
      offset_x == GetOr(params, "offset_x", JNum(0))
      offset_y == GetOr(params, "offset_y", JNum(0))
      isCenter == anchor = JStr(Chars_center)
      isTopCenter == anchor = JStr(Dash(Chars_top, Chars_center))
      anchored == Truthy(anchor)
      centered == anchored /\ (isCenter \/ isTopCenter
                                 \/ anchor = JStr(Dash(Chars_bottom, Chars_center)))
      explicit == ~anchored /\ (x # JUndefined \/ y # JUndefined)
      nullish(v) == v.kind \in {"undefined", "null"}
  IN
  IF centered
  THEN [ok |-> TRUE, error |-> NoError,
        left |-> JStr(<<"50", "%">>),
        top |-> IF isCenter THEN JStr(<<"50", "%">>)
                ELSE IF isTopCenter THEN Px(offset_y)
                ELSE JStr(<<"calc(100% - ">> \o ToChunks(offset_y) \o <<"px)">>),
        transform |->
          IF isCenter
          THEN JStr(<<"translate(calc(-50% + ">> \o ToChunks(offset_x)
                      \o <<"px), calc(-50% + ">> \o ToChunks(offset_y) \o <<"px))">>)
          ELSE JStr(<<"translateX(calc(-50% + ">> \o ToChunks(offset_x) \o <<"px))">>)]
  ELSE IF anchored
  THEN [ok |-> position.ok, error |-> position.error,
        left |-> IF numeric THEN Px(JHalves(position.x2)) ELSE JStr(<<"NaN", "px">>),
        top |-> IF numeric THEN Px(JHalves(position.y2)) ELSE JStr(<<"NaN", "px">>),
        transform |-> JUndefined]
  ELSE IF explicit
  THEN [ok |-> TRUE, error |-> NoError,
        left |-> Px(IF nullish(x) THEN JNum(0) ELSE x),
        top |-> Px(IF nullish(y) THEN JNum(0) ELSE y),
        transform |-> JUndefined]
  ELSE [ok |-> TRUE, error |-> NoError,
        left |-> JStr(<<"50", "%">>), top |-> JStr(<<"50", "%">>),
        transform |-> JStr(<<"translate(-50%, -50%)">>)]

\* calculateAnchorPosition as the handler calls it: the canvas size (or 800 x 600),
\* an estimated element of 100 x size, the offsets.
TextAnchorPosition(ctx, params, numeric) ==
  LET anchor == Get(params, "anchor")
      sizeValue == SizeValue(params)
  IN
  IF anchor.kind # "string"
  THEN [ok |-> FALSE, x2 |-> 0, y2 |-> 0,
        error |-> TypeError("anchor.toLowerCase is not a function")]
  ELSE IF numeric
  THEN calculateAnchorPosition(anchor.chars,
         Or(ctx.template.canvas.width, JNum(800)).num,
         Or(ctx.template.canvas.height, JNum(600)).num,
         100, (IF sizeValue.kind = "number" THEN sizeValue ELSE JNum(16)).num,
         GetOr(params, "offset_x", JNum(0)).num,
         GetOr(params, "offset_y", JNum(0)).num)
  ELSE calculateAnchorPosition(anchor.chars, 0, 0, 0, 0, 0, 0)

\* Whether the operands of the anchor arithmetic are all integers.
TextNumeric(ctx, params) ==
  LET sizeValue == SizeValue(params) IN
  /\ IsInteger(Or(ctx.template.canvas.width, JNum(800)))
  /\ IsInteger(Or(ctx.template.canvas.height, JNum(600)))
  /\ IsInteger(IF sizeValue.kind = "number" THEN sizeValue ELSE JNum(16))
  /\ IsInteger(GetOr(params, "offset_x", JNum(0)))
  /\ IsInteger(GetOr(params, "offset_y", JNum(0)))

StyleSetIf(cond, style, key, value) ==
  IF cond THEN StyleSet(style, key, value) ELSE style

\* The text_shadow value.
TextShadow(params) ==
  LET shadow_color == GetOr(params, "shadow_color", Black)
      shadow_opacity == GetOr(params, "shadow_opacity", JNum(1))
  IN
  JStr(ToChunks(GetOr(params, "shadow_offset_x", JNum(0))) \o <<"px ">>
         \o ToChunks(GetOr(params, "shadow_offset_y", JNum(0))) \o <<"px ">>
         \o ToChunks(GetOr(params, "shadow_blur", JNum(0))) \o <<"px ">>
         \o (IF LessThanOne(shadow_opacity)
             THEN <<"rgba(", NumberChunk(parseInt16(Slice(shadow_color.chars, 1, 3))),
                    ", ", NumberChunk(parseInt16(Slice(shadow_color.chars, 3, 5))),
                    ", ", NumberChunk(parseInt16(Slice(shadow_color.chars, 5, 7))),
                    ", ">> \o ToChunks(shadow_opacity) \o <<")">>
             ELSE shadow_color.chars))

\* The style of the text element: fontId and colorId are the palette ids.
TextStyle(params, fontId, colorId, placement) ==
  StyleSetIf(Truthy(GetOr(params, "shadow_enabled", JBool(FALSE))),
    StyleSetIf(placement.transform # JUndefined,
      StyleSetIf(Truthy(GetOr(params, "italic", JBool(FALSE))),
        StyleSetIf(Truthy(GetOr(params, "bold", JBool(FALSE))),
          <<[key |-> "position", value |-> JStr(<<"absolute">>)],
            [key |-> "left", value |-> placement.left],
            [key |-> "top", value |-> placement.top],
            [key |-> "font", value |-> JStr(<<fontId>>)],
            [key |-> "font_size", value |-> PxIfNumber(SizeValue(params))],
            [key |-> "color", value |-> JStr(<<colorId>>)],
            [key |-> "text_align", value |-> AlignValue(params)]>>,
          "font_weight", JStr(<<"bold">>)),
        "font_style", JStr(<<"italic">>)),
      "transform", placement.transform),
    "text_shadow", TextShadow(params))

\* From "Create element for the text" on: ctxD holds the data item, n2 ids are
\* used, sc is the registration of the shadow colour (used when enabled).
TextElementAdded(ctxD, params, n2, f, c, placement, sc) ==
  LET shadowed == Truthy(GetOr(params, "shadow_enabled", JBool(FALSE)))
      dataItemId == generateId("data", n2 + 1)
      elementId == generateId("elem", n2 + 2)
      element == [element_id |-> elementId, element_type |-> "data_item",
                  data_item_id |-> dataItemId,
                  style |-> TextStyle(params, f.id, c.id, placement)]
  IN
  IF shadowed /\ ~sc.ok
  THEN Thrown(ctxD, sc.error, f.ids + c.ids + 2, f.cache)
  ELSE Returned([ctxD EXCEPT
                   !.theme = IF shadowed THEN sc.theme ELSE @,
                   !.template.elements = Append(@, element),
                   !.layerMap = MapSet(@, Get(params, "layer_name"), elementId)],
                JObj(<<[key |-> "elementId", value |-> JStr(<<elementId>>)],
                       [key |-> "dataItemId", value |-> JStr(<<dataItemId>>)]>>),
                2 + f.ids + c.ids + (IF shadowed THEN sc.ids ELSE 0), f.cache)

\* From "Create data item for the text" on: f and c are the registrations of
\* the font and of the colour.
TextDataItemAdded(ctx, params, n2, f, c, placement) ==
  LET dataItem == [id |-> generateId("data", n2 + 1), type |-> "text",
                   display_name |-> Get(params, "layer_name"),
                   content |-> TextValue(params)]
      ctxD == [ctx EXCEPT !.theme = c.theme, !.data.data_items = Append(@, dataItem)]
  IN
  IF ~placement.ok
  THEN Thrown(ctxD, placement.error, f.ids + c.ids + 1, f.cache)
  ELSE TextElementAdded(ctxD, params, n2, f, c, placement,
         ensureColorOfValue(c.theme, GetOr(params, "shadow_color", Black), n2 + 2))

\* From ensureColorInTheme(context.theme, color) on.
TextColorEnsured(ctx, params, n, f, c) ==
  IF ~c.ok THEN Thrown([ctx EXCEPT !.theme = f.theme], c.error, f.ids, f.cache)
  ELSE TextDataItemAdded(ctx, params, n + f.ids + c.ids, f, c,
         TextPlacement(params,
           TextAnchorPosition(ctx, params, TextNumeric(ctx, params)),
           TextNumeric(ctx, params)))

\* From await ensureFontInTheme(context.theme, fontValue) on.
TextFontEnsured(ctx, params, n, cache, f) ==
  IF ~f.ok THEN Thrown(ctx, f.error, 0, cache)
  ELSE TextColorEnsured(ctx, params, n, f,
         ensureColorOfValue(f.theme, GetOr(params, "color", Black), n + f.ids))

handleAddTextLayer(ctx, params, n, cache, fetch) ==
  IF Falsy(Get(params, "layer_name")) \/ Falsy(TextValue(params))
  THEN Thrown(ctx, ValidationError("layer_name and text are required"), 0, cache)
  ELSE TextFontEnsured(ctx, params, n, cache,
         ensureFontOfValue(ctx.theme, FontValue(params), n, cache, fetch))

(***************************************************************************)
(* generate_image, edit_image: reply is the answer of the generative-image *)
(* capability (runReplicateImageCreator): "array" (output is [url]),       *)
(* "string" (output is url), "empty" (output is []), "other" (output is    *)
(* neither) or "reject" (the call fails).                                  *)
(***************************************************************************)
ReplicateReplies == {"array", "string", "empty", "other", "reject"}
ReplicateUrl == JStr(<<"https://replicate.delivery/out.png">>)

ImageFromPrediction(ctx, reply, what) ==
  IF reply = "array" \/ reply = "string"
  THEN Returned(ctx, ReplicateUrl, 0, googleFontCache)
  ELSE IF reply = "empty"
  THEN Returned(ctx, JUndefined, 0, googleFontCache)
  ELSE Thrown(ctx, ValidationError(what \o " failed"), 0, googleFontCache)

handleGenerateImage(ctx, params, reply) ==
  IF Falsy(Get(params, "prompt"))
  THEN Thrown(ctx, ValidationError("prompt is required"), 0, googleFontCache)
  ELSE ImageFromPrediction(ctx, reply, "Image generation")

handleEditImage(ctx, params, reply) ==
  IF Falsy(Get(params, "input_images")) \/ Falsy(Get(params, "prompt"))
  THEN Thrown(ctx, ValidationError("input_images and prompt are required"),
              0, googleFontCache)
  ELSE ImageFromPrediction(ctx, reply, "Image editing")

\* Mutant: the placeholder returns a result without an output.
handleAsNoOp(ctx, name) == Returned(ctx, JUndefined, 0, googleFontCache)

\* resize_image, crop_image, remove_background, upscale, segment
handleNotImplemented(ctx, name) ==
  Thrown(ctx, ValidationError(name \o " operation is not implemented yet"),
         0, googleFontCache)

NotImplemented == {"resize_image", "crop_image", "remove_background", "upscale",
                   "segment"}

(***************************************************************************)
(* The element tree.  An element is a record; a container has children.    *)
(* A handler's change of an element it holds a reference to is the         *)
(* replacement of that element in the tree.                                *)
(***************************************************************************)
IsContainerWithChildren(e) == e.element_type = "container" /\ "children" \in DOMAIN e

\* rec with rec[name] = value, whether or not rec had the field.
SetField(rec, name, value) ==
  [f \in DOMAIN rec \cup {name} |-> IF f = name THEN value ELSE rec[f]]

RECURSIVE findElement(_, _)
\* The first element with the id, depth-first; null when there is none.
findElement(elements, elementId) ==
  IF elements = <<>> THEN JNull
  ELSE IF Head(elements).element_id = elementId THEN Head(elements)
  ELSE IF /\ IsContainerWithChildren(Head(elements))
          /\ findElement(Head(elements).children, elementId) # JNull
  THEN findElement(Head(elements).children, elementId)
  ELSE findElement(Tail(elements), elementId)

RECURSIVE ReplaceElement(_, _, _)
\* The tree with the element findElement returns replaced by element.
ReplaceElement(elements, elementId, element) ==
  IF elements = <<>> THEN <<>>
  ELSE IF Head(elements).element_id = elementId THEN <<element>> \o Tail(elements)
  ELSE IF /\ IsContainerWithChildren(Head(elements))
          /\ findElement(Head(elements).children, elementId) # JNull
  THEN <<[Head(elements) EXCEPT
            !.children = ReplaceElement(@, elementId, element)]>> \o Tail(elements)
  ELSE <<Head(elements)>> \o ReplaceElement(Tail(elements), elementId, element)

RECURSIVE removeElementFromArray(_, _)
\* [removed, elements]: the removed element (null when none has the id) and the
\* array as the splice leaves it.
removeElementFromArray(elements, elementId) ==
  IF elements = <<>> THEN [removed |-> JNull, elements |-> <<>>]
  ELSE IF Head(elements).element_id = elementId
  THEN [removed |-> Head(elements), elements |-> Tail(elements)]
  ELSE IF /\ IsContainerWithChildren(Head(elements))
          /\ removeElementFromArray(Head(elements).children, elementId).removed # JNull
  THEN [removed |-> removeElementFromArray(Head(elements).children, elementId).removed,
        elements |->
          <<[Head(elements) EXCEPT
               !.children = removeElementFromArray(@, elementId).elements]>>
            \o Tail(elements)]
  ELSE [removed |-> removeElementFromArray(Tail(elements), elementId).removed,
        elements |-> <<Head(elements)>>
                       \o removeElementFromArray(Tail(elements), elementId).elements]

\* Mutant: the element is reported as removed and stays in the tree.
removeElementKeepingIt(template, elementId) ==
  [removed |-> findElement(template.elements, elementId),
   elements |-> template.elements]

removeElementFromTemplate(template, elementId) ==
  removeElementFromArray(template.elements, elementId)

\* Mutant: the destination is not asked for its type.
AddRemovedToAnyElement(template, element, containerId) ==
  LET container == findElement(template.elements, containerId) IN
  IF container = JNull
  THEN [ok |-> FALSE, template |-> template,
        error |-> ValidationError("Container not found")]
  ELSE [ok |-> TRUE, error |-> NoError,
        template |->
          [template EXCEPT !.elements =
             ReplaceElement(@, containerId,
               SetField(container, "children",
                 Append(IF "children" \in DOMAIN container
                        THEN container.children ELSE <<>>, element)))]]

\* The second half of addElementToContainer: the element is out of the tree.
AddRemovedToContainer(template, element, containerId) ==
  LET container == findElement(template.elements, containerId) IN
  IF container = JNull
  THEN [ok |-> FALSE, template |-> template,
        error |-> ValidationError("Container not found")]
  ELSE IF container.element_type # "container"
  THEN [ok |-> FALSE, template |-> template,
        error |-> ValidationError("Element is not a container")]
  ELSE [ok |-> TRUE, error |-> NoError,
        template |->
          [template EXCEPT !.elements =
             ReplaceElement(@, containerId,
               SetField(container, "children",
                 Append(IF "children" \in DOMAIN container
                        THEN container.children ELSE <<>>, element)))]]

\* Mutant: a copy; the element also stays where it was.
copyElementToContainer(template, elementId, containerId) ==
  IF findElement(template.elements, elementId) = JNull
  THEN [ok |-> FALSE, template |-> template,
        error |-> ValidationError("Element not found")]
  ELSE AddRemovedToContainer(template, findElement(template.elements, elementId),
                             containerId)

\* [ok, template, error]: the template as the call leaves it, also when it throws.
addElementToContainer(template, elementId, containerId) ==
  IF removeElementFromTemplate(template, elementId).removed = JNull
  THEN [ok |-> FALSE, template |-> template,
        error |-> ValidationError("Element not found")]
  ELSE AddRemovedToContainer(
         [template EXCEPT !.elements =
            removeElementFromTemplate(template, elementId).elements],
         removeElementFromTemplate(template, elementId).removed, containerId)

\* element.style, or {} when the element has none.
StyleOf(element) == IF "style" \in DOMAIN element THEN element.style ELSE <<>>

\* element.style.<key> = value on the element with the id (if (!element.style)
\* element.style = {} included).
SetElementStyle(ctx, elementId, key, value) ==
  [ctx EXCEPT !.template.elements =
     ReplaceElement(@, elementId,
       SetField(findElement(@, elementId), "style",
                StyleSet(StyleOf(findElement(@, elementId)), key, value)))]

SetElementStyleIf(cond, ctx, elementId, key, value) ==
  IF cond THEN SetElementStyle(ctx, elementId, key, value) ELSE ctx

\* array.findIndex(item => item.id === id), 1-based; 0 when there is none.
DataItemIndex(items, id) ==
  IF \E i \in 1..Len(items) : items[i].id = id
  THEN CHOOSE i \in 1..Len(items) :
         items[i].id = id /\ \A j \in 1..(i - 1) : items[j].id # id
  ELSE 0

\* array.splice(i, 1), i 1-based.
RemoveAt(seq, i) == SubSeq(seq, 1, i - 1) \o SubSeq(seq, i + 1, Len(seq))

\* map.delete(key)
MapDelete(m, key) ==
  IF MapHas(m, key)
  THEN RemoveAt(m, CHOOSE i \in 1..Len(m) : m[i].key = key)
  ELSE m

\* The lookup all layer handlers start with: layerMap.get, then findElement.
\* [ok, error, elementId, element]
LookupLayer(ctx, layer_name) ==
  IF ~MapHas(ctx.layerMap, layer_name)
  THEN [ok |-> FALSE, error |-> OpReferenceError("Layer not found"),
        elementId |-> "", element |-> JNull]
  ELSE IF findElement(ctx.template.elements, MapGet(ctx.layerMap, layer_name)) = JNull
  THEN [ok |-> FALSE, error |-> OpReferenceError("Element not found"),
        elementId |-> MapGet(ctx.layerMap, layer_name), element |-> JNull]
  ELSE [ok |-> TRUE, error |-> NoError,
        elementId |-> MapGet(ctx.layerMap, layer_name),
        element |-> findElement(ctx.template.elements,
                                MapGet(ctx.layerMap, layer_name))]

ElementIdOutput(elementId) ==
  JObj(<<[key |-> "elementId", value |-> JStr(<<elementId>>)]>>)

(***************************************************************************)
(* edit_text_layer.                                                        *)
(***************************************************************************)
\* A registration that was not asked for.
NotEnsured(theme, cache) ==
  [ok |-> TRUE, id |-> "", theme |-> theme, ids |-> 0, cache |-> cache,
   error |-> NoError]

\* From the colour on: ctx holds the new content, font and font_size.
EditTextColorEnsured(ctx, params, elementId, f, c) ==
  IF ~c.ok THEN Thrown(ctx, c.error, f.ids, f.cache)
  ELSE Returned(
         SetElementStyleIf(Get(params, "text_align") # JUndefined,
           SetElementStyleIf(Get(params, "color") # JUndefined,
             [ctx EXCEPT !.theme = c.theme],
             elementId, "color", JStr(<<c.id>>)),
           elementId, "text_align", Get(params, "text_align")),
         ElementIdOutput(elementId), f.ids + c.ids, f.cache)

\* From the font on: ctx holds the new content.
EditTextFontEnsured(ctx, params, n, cache, elementId, f) ==
  IF ~f.ok THEN Thrown(ctx, f.error, 0, cache)
  ELSE EditTextColorEnsured(
         SetElementStyleIf(Get(params, "font_size") # JUndefined,
           SetElementStyleIf(Get(params, "font_name") # JUndefined,
             [ctx EXCEPT !.theme = f.theme],
             elementId, "font", JStr(<<f.id>>)),
           elementId, "font_size", Get(params, "font_size")),
         params, elementId, f,
         IF Get(params, "color") # JUndefined
         THEN ensureColorOfValue(f.theme, Get(params, "color"), n + f.ids)
         ELSE [ok |-> TRUE, id |-> "", theme |-> f.theme, ids |-> 0,
               error |-> NoError])

\* From "Update text content" on: the data item at index i is the text.
EditTextContent(ctx, params, n, cache, fetch, elementId, i) ==
  EditTextFontEnsured(
    IF Get(params, "text_content") # JUndefined
    THEN [ctx EXCEPT !.data.data_items[i].content = Get(params, "text_content")]
    ELSE ctx,
    params, n, cache, elementId,
    IF Get(params, "font_name") # JUndefined
    THEN ensureFontOfValue(ctx.theme, Get(params, "font_name"), n, cache, fetch)
    ELSE NotEnsured(ctx.theme, cache))

\* From "Find data item" on.
EditTextOfElement(ctx, params, n, cache, fetch, found) ==
  LET i == IF "data_item_id" \in DOMAIN found.element
           THEN DataItemIndex(ctx.data.data_items, found.element.data_item_id)
           ELSE 0
  IN
  IF found.element.element_type # "data_item"
  THEN Thrown(ctx, ValidationError("Layer is not a text layer"), 0, cache)
  ELSE IF i = 0 \/ ctx.data.data_items[i].type # "text"
  THEN Thrown(ctx, ValidationError("Layer is not a text layer"), 0, cache)
  ELSE EditTextContent(ctx, params, n, cache, fetch, found.elementId, i)

EditTextFound(ctx, params, n, cache, fetch, found) ==
  IF ~found.ok THEN Thrown(ctx, found.error, 0, cache)
  ELSE EditTextOfElement(ctx, params, n, cache, fetch, found)

handleEditTextLayer(ctx, params, n, cache, fetch) ==
  IF Falsy(Get(params, "layer_name"))
  THEN Thrown(ctx, ValidationError("layer_name is required"), 0, cache)
  ELSE EditTextFound(ctx, params, n, cache, fetch,
                     LookupLayer(ctx, Get(params, "layer_name")))

(***************************************************************************)
(* set_layer_visibility, delete_layer.                                     *)
(***************************************************************************)
SetVisibilityFound(ctx, params, found) ==
  IF ~found.ok THEN Thrown(ctx, found.error, 0, googleFontCache)
  ELSE Returned(
         SetElementStyle(ctx, found.elementId, "display",
           JStr(<<IF Truthy(Get(params, "visible")) THEN "block" ELSE "none">>)),
         JObj(<<[key |-> "elementId", value |-> JStr(<<found.elementId>>)],
                [key |-> "visible", value |-> Get(params, "visible")]>>),
         0, googleFontCache)

handleSetLayerVisibility(ctx, params) ==
  IF Falsy(Get(params, "layer_name")) \/ Get(params, "visible") = JUndefined
  THEN Thrown(ctx, ValidationError("layer_name and visible are required"),
              0, googleFontCache)
  ELSE SetVisibilityFound(ctx, params, LookupLayer(ctx, Get(params, "layer_name")))

\* From "Remove element from template" on: ctx has lost the data item.
DeleteLayerElement(ctx, params, elementId, removal) ==
  IF removal.removed = JNull
  THEN Thrown(ctx, OpReferenceError("Failed to remove element"), 0, googleFontCache)
  ELSE Returned([ctx EXCEPT !.template.elements = removal.elements,
                            !.layerMap = MapDelete(@, Get(params, "layer_name"))],
                ElementIdOutput(elementId), 0, googleFontCache)

\* From "Remove data item" on.
DeleteLayerFound(ctx, params, found) ==
  LET i == IF /\ found.element.element_type = "data_item"
              /\ "data_item_id" \in DOMAIN found.element
           THEN DataItemIndex(ctx.data.data_items, found.element.data_item_id)
           ELSE 0
  IN
  DeleteLayerElement(
    IF i # 0 THEN [ctx EXCEPT !.data.data_items = RemoveAt(@, i)] ELSE ctx,
    params, found.elementId,
    removeElementFromTemplate(ctx.template, found.elementId))

handleDeleteLayer(ctx, params) ==
  IF Falsy(Get(params, "layer_name"))
  THEN Thrown(ctx, ValidationError("layer_name is required"), 0, googleFontCache)
  ELSE IF ~LookupLayer(ctx, Get(params, "layer_name")).ok
  THEN Thrown(ctx, LookupLayer(ctx, Get(params, "layer_name")).error,
              0, googleFontCache)
  ELSE DeleteLayerFound(ctx, params, LookupLayer(ctx, Get(params, "layer_name")))

(***************************************************************************)
(* set_layer_anchor.  parseFloat reads a string written in chunks: a       *)
(* numeral is a chunk of its own ("100" "px", "50" "%", "12" ".5" "px").   *)
(* The offsets and the canvas size are taken as numbers.                   *)
(***************************************************************************)
NumeralRange == 4000

\* The integer a chunk spells: [is, neg, abs].
Numeral(chunk) ==
  IF \E i \in 0..NumeralRange : ToString(i) = chunk
  THEN [is |-> TRUE, neg |-> FALSE,
        abs |-> CHOOSE i \in 0..NumeralRange : ToString(i) = chunk]
  ELSE IF \E i \in 0..NumeralRange : "-" \o ToString(i) = chunk
  THEN [is |-> TRUE, neg |-> TRUE,
        abs |-> CHOOSE i \in 0..NumeralRange : "-" \o ToString(i) = chunk]
  ELSE [is |-> FALSE, neg |-> FALSE, abs |-> 0]

\* parseFloat(v): [nan, twice], the value doubled.
parseFloat(v) ==
  LET chars == ToChunks(v)
      m == Numeral(chars[1])
      half == \/ Len(chars) >= 2 /\ chars[2] = ".5"
              \/ Len(chars) >= 3 /\ chars[2] = "." /\ chars[3] = "5"
      mag == 2 * m.abs + (IF half THEN 1 ELSE 0)
  IN
  IF chars = <<>> THEN [nan |-> TRUE, twice |-> 0]
  ELSE IF ~m.is THEN [nan |-> TRUE, twice |-> 0]
  ELSE [nan |-> FALSE, twice |-> IF m.neg THEN -mag ELSE mag]

\* A number operand: [nan, twice].
NumberOperand(v) ==
  IF v.kind # "number" \/ "nan" \in DOMAIN v THEN [nan |-> TRUE, twice |-> 0]
  ELSE IF "num" \in DOMAIN v THEN [nan |-> FALSE, twice |-> 2 * v.num]
  ELSE IF "twice" \in DOMAIN v THEN [nan |-> FALSE, twice |-> v.twice]
  ELSE [nan |-> FALSE, twice |-> v.tenths \div 5]

\* The whole number an operand of the anchor formula is; 0 stands in for NaN.
Whole(p) == IF p.nan THEN 0 ELSE CHOOSE n \in {p.twice \div 2} : 2 * n = p.twice

\* parseFloat(element.style?.<key> || dflt)
StyleNumber(element, key, dflt) ==
  parseFloat(Or(IF MapHas(StyleOf(element), key)
                THEN MapGet(StyleOf(element), key) ELSE JUndefined,
                JStr(<<dflt>>)))

\* The anchors whose x (y) does not depend on the sizes.
LeftAnchors ==
  {Dash(Chars_top, Chars_left), Dash(Chars_center, Chars_left),
   Dash(Chars_bottom, Chars_left)}
TopAnchors ==
  {Dash(Chars_top, Chars_left), Dash(Chars_top, Chars_center),
   Dash(Chars_top, Chars_right)}

\* baseX + position.x as a number: NaN as soon as an operand it uses is NaN.
Sum(nan, base, twice) ==
  IF nan \/ base.nan THEN JNaN ELSE JHalves(base.twice + twice)

\* From "Calculate position" on: the base box is [w, h, x, y], the element box
\* [w, h], each a parseFloat result or a number operand.
AnchorApplied(ctx, params, elementId, base, box, position) ==
  LET a == toLowerCase(Get(params, "anchor").chars)
      ox == NumberOperand(GetOr(params, "offset_x", JNum(0)))
      oy == NumberOperand(GetOr(params, "offset_y", JNum(0)))
      x == Sum(ox.nan \/ (a \notin LeftAnchors /\ (base.w.nan \/ box.w.nan)),
               base.x, position.x2)
      y == Sum(oy.nan \/ (a \notin TopAnchors /\ (base.h.nan \/ box.h.nan)),
               base.y, position.y2)
  IN
  IF ~position.ok THEN Thrown(ctx, position.error, 0, googleFontCache)
  ELSE Returned(
         SetElementStyle(
           SetElementStyle(
             SetElementStyle(ctx, elementId, "position", JStr(<<"absolute">>)),
             elementId, "left", Px(x)),
           elementId, "top", Px(y)),
         JObj(<<[key |-> "elementId", value |-> JStr(<<elementId>>)],
                [key |-> "x", value |-> x], [key |-> "y", value |-> y]>>),
         0, googleFontCache)

\* From "Get element dimensions" on, with the base box settled.
AnchorInBox(ctx, params, found, base) ==
  AnchorApplied(ctx, params, found.elementId, base,
    [w |-> StyleNumber(found.element, "width", "100"),
     h |-> StyleNumber(found.element, "height", "100")],
    IF Get(params, "anchor").kind # "string"
    THEN [ok |-> FALSE, x2 |-> 0, y2 |-> 0,
          error |-> TypeError("anchor.toLowerCase is not a function")]
    ELSE calculateAnchorPosition(Get(params, "anchor").chars,
           Whole(base.w), Whole(base.h),
           Whole(StyleNumber(found.element, "width", "100")),
           Whole(StyleNumber(found.element, "height", "100")),
           Whole(NumberOperand(GetOr(params, "offset_x", JNum(0)))),
           Whole(NumberOperand(GetOr(params, "offset_y", JNum(0))))))

\* if (relative_to) { ... }: the box of the relative layer.
AnchorRelative(ctx, params, found, relative) ==
  IF ~relative.ok
  THEN Thrown(ctx,
              OpReferenceError("Relative " \o
                (IF relative.element = JNull /\ relative.elementId # ""
                 THEN "element" ELSE "layer") \o " not found"),
              0, googleFontCache)
  ELSE AnchorInBox(ctx, params, found,
         [w |-> StyleNumber(relative.element, "width", "100"),
          h |-> StyleNumber(relative.element, "height", "100"),
          x |-> StyleNumber(relative.element, "left", "0"),
          y |-> StyleNumber(relative.element, "top", "0")])

AnchorFound(ctx, params, found) ==
  IF ~found.ok THEN Thrown(ctx, found.error, 0, googleFontCache)
  ELSE IF Truthy(Get(params, "relative_to"))
  THEN AnchorRelative(ctx, params, found,
                      LookupLayer(ctx, Get(params, "relative_to")))
  ELSE AnchorInBox(ctx, params, found,
         [w |-> NumberOperand(Or(ctx.template.canvas.width, JNum(800))),
          h |-> NumberOperand(Or(ctx.template.canvas.height, JNum(600))),
          x |-> [nan |-> FALSE, twice |-> 0],
          y |-> [nan |-> FALSE, twice |-> 0]])

handleSetLayerAnchor(ctx, params) ==
  IF Falsy(Get(params, "layer_name")) \/ Falsy(Get(params, "anchor"))
  THEN Thrown(ctx, ValidationError("layer_name and anchor are required"),
              0, googleFontCache)
  ELSE AnchorFound(ctx, params, LookupLayer(ctx, Get(params, "layer_name")))

(***************************************************************************)
(* create_flex_container, add_layer_to_container, set_flex_layout.         *)
(***************************************************************************)
handleCreateFlexContainer(ctx, params, n) ==
  LET container_name == Get(params, "container_name")
      elementId == generateId("elem", n + 1)
      element ==
        [element_id |-> elementId, element_type |-> "container", children |-> <<>>,
         style |->
           StyleSetIf(Truthy(Get(params, "height")),
             StyleSetIf(Truthy(Get(params, "width")),
               <<[key |-> "position", value |-> JStr(<<"absolute">>)],
                 [key |-> "left", value |-> Px(GetOr(params, "x", JNum(0)))],
                 [key |-> "top", value |-> Px(GetOr(params, "y", JNum(0)))],
                 [key |-> "display", value |-> JStr(<<"flex">>)],
                 [key |-> "flex_direction",
                  value |-> GetOr(params, "direction", JStr(<<"row">>))],
                 [key |-> "justify_content",
                  value |-> GetOr(params, "justify", JStr(<<"flex-start">>))],
                 [key |-> "align_items",
                  value |-> GetOr(params, "align", JStr(<<"flex-start">>))],
                 [key |-> "gap",
                  value |-> PxIfNumber(GetOr(params, "gap", JStr(<<"0", "px">>)))]>>,
               "width", PxIfNumber(Get(params, "width"))),
             "height", PxIfNumber(Get(params, "height")))]
  IN
  IF Falsy(container_name)
  THEN Thrown(ctx, ValidationError("container_name is required"), 0, googleFontCache)
  ELSE Returned([ctx EXCEPT !.template.elements = Append(@, element),
                            !.layerMap = MapSet(@, container_name, elementId)],
                ElementIdOutput(elementId), 1, googleFontCache)

\* From "Move layer into container" on.
LayerMoved(ctx, layerElementId, containerElementId, moved) ==
  IF ~moved.ok
  THEN Thrown([ctx EXCEPT !.template = moved.template], moved.error,
              0, googleFontCache)
  ELSE Returned([ctx EXCEPT !.template = moved.template],
                JObj(<<[key |-> "layerElementId", value |-> JStr(<<layerElementId>>)],
                       [key |-> "containerElementId",
                        value |-> JStr(<<containerElementId>>)]>>),
                0, googleFontCache)

handleAddLayerToContainer(ctx, params) ==
  LET layer_name == Get(params, "layer_name")
      container_name == Get(params, "container_name")
  IN
  IF Falsy(layer_name) \/ Falsy(container_name)
  THEN Thrown(ctx, ValidationError("layer_name and container_name are required"),
              0, googleFontCache)
  ELSE IF ~MapHas(ctx.layerMap, layer_name)
  THEN Thrown(ctx, OpReferenceError("Layer not found"), 0, googleFontCache)
  ELSE IF ~MapHas(ctx.layerMap, container_name)
  THEN Thrown(ctx, OpReferenceError("Container not found"), 0, googleFontCache)
  ELSE LayerMoved(ctx, MapGet(ctx.layerMap, layer_name),
                  MapGet(ctx.layerMap, container_name),
                  addElementToContainer(ctx.template,
                                        MapGet(ctx.layerMap, layer_name),
                                        MapGet(ctx.layerMap, container_name)))

\* From "Update flex properties" on.
FlexLayoutSet(ctx, params, containerElementId) ==
  Returned(
    SetElementStyleIf(Get(params, "gap") # JUndefined,
      SetElementStyleIf(Get(params, "align") # JUndefined,
        SetElementStyleIf(Get(params, "justify") # JUndefined,
          SetElementStyleIf(Get(params, "direction") # JUndefined,
            SetElementStyle(ctx, containerElementId, "display", JStr(<<"flex">>)),
            containerElementId, "flex_direction", Get(params, "direction")),
          containerElementId, "justify_content", Get(params, "justify")),
        containerElementId, "align_items", Get(params, "align")),
      containerElementId, "gap", PxIfNumber(Get(params, "gap"))),
    JObj(<<[key |-> "containerElementId",
            value |-> JStr(<<containerElementId>>)]>>),
    0, googleFontCache)

FlexLayoutFound(ctx, params, found) ==
  IF ~found.ok
  THEN Thrown(ctx,
              IF found.elementId = "" THEN OpReferenceError("Container not found")
              ELSE found.error,
              0, googleFontCache)
  ELSE IF found.element.element_type # "container"
  THEN Thrown(ctx, ValidationError("Element is not a container"), 0, googleFontCache)
  ELSE FlexLayoutSet(ctx, params, found.elementId)

handleSetFlexLayout(ctx, params) ==
  IF Falsy(Get(params, "container_name"))
  THEN Thrown(ctx, ValidationError("container_name is required"), 0, googleFontCache)
  ELSE FlexLayoutFound(ctx, params, LookupLayer(ctx, Get(params, "container_name")))

(***************************************************************************)
(* The ExecutionContext executeOperations starts from.                     *)
(***************************************************************************)
SceneId == "scene"
SceneName == "Scene"

EmptyTheme ==
  [theme_id |-> SceneId \o "_theme", theme_name |-> SceneName \o " Theme",
   color_palette |-> <<>>, font_palette |-> <<>>]

NewContext(ops) ==
  [sceneId |-> SceneId,
   sceneName |-> SceneName,
   data |-> [scene_id |-> SceneId, data_items |-> <<>>],
   template |-> [template_id |-> SceneId \o "_template",
                 template_name |-> SceneName \o " Template",
                 canvas |-> [width |-> JNum(800), height |-> JNum(600)],
                 elements |-> <<>>],
   theme |-> EmptyTheme,
   currentStep |-> JNum(0),
   totalSteps |-> Len(ops),
   layerMap |-> <<>>,
   operationOutputs |-> <<>>]

(***************************************************************************)
(* Direct calls of the palette functions: the theme is one the code itself *)
(* built, by registering the first n colours (fonts) of a fixed list.      *)
(***************************************************************************)
HexChars == Digits \o UpperHex
BaseColor(i) == <<"#", "0", "0", "0", "0", HexChars[(i \div 16) + 1], HexChars[(i % 16) + 1]>>
BaseFont(i) == <<"F", Digits[i + 1]>>

RECURSIVE ThemeWithColors(_)
ThemeWithColors(n) ==
  IF n = 0 THEN EmptyTheme
  ELSE ensureColorInTheme(ThemeWithColors(n - 1), BaseColor(n), n - 1).theme

\* The theme and the font cache after registering the first n fonts.
RECURSIVE ThemeWithFonts(_)
ThemeWithFonts(n) ==
  IF n = 0 THEN [theme |-> EmptyTheme, cache |-> <<>>]
  ELSE LET before == ThemeWithFonts(n - 1) IN
       ensureFontInTheme(before.theme, BaseFont(n), n - 1, before.cache, "notok")

ColorInputs ==
  { <<"#", "0", "0", "0", "0", "0", "1">>,
    <<"0", "0", "0", "0", "0", "1">>,
    <<"#", "0", "0", "0", "0", "0", "1", "F", "F">>,
    <<"0", "0", "0", "0", "0", "1", "f", "f">>,
    <<"#", "0", "0", "0", "0", "F", "A">>,
    <<"0", "0", "0", "0", "f", "a">>,
    <<"0", "0", "0", "0", "F", "a", "f", "F">>,
    <<"#", "0", "0", "0", "0", "F", "A", "8", "0">>,
    <<"#", "0", "0", "0", "0", "F", "B">>,
    <<"#", "G", "G", "0", "0", "0", "0">>,
    <<"#", "1", "G", "0", "0", "0", "0">>,
    <<"#", "0", "1", "0", "0", "0", "0">>,
    <<"#", "F", "F", "F">> }

FontInputs ==
  { <<"F", "1">>, <<"f", "1">>,
    <<"A", "r", "i", "a", "l">>, <<"a", "r", "i", "a", "l">>,
    <<"A", "R", "I", "A", "L">>,
    <<"F", "i", "r", "a", " ", "C", "o", "d", "e">>,
    <<"L", "a", "t", "o">> }

IdlePipeline ==
  /\ operations = <<>>
  /\ pc = "Pending"
  /\ idx = 0
  /\ resolvedParams = <<>>
  /\ error = NoError
  /\ sent = <<>>
  /\ events = <<>>
  /\ hist = <<>>

InitColors ==
  /\ IdlePipeline
  /\ \E n \in 0..MaxColors :
       /\ context = [NewContext(<<>>) EXCEPT !.theme = ThemeWithColors(n)]
       /\ idSeq = n
  /\ googleFontCache = <<>>

CallEnsureColor(color) ==
  /\ Len(hist) < MaxCalls
  /\ LET res == ensureColorInTheme(context.theme, color, idSeq) IN
       /\ context' = [context EXCEPT !.theme = res.theme]
       /\ idSeq' = idSeq + res.ids
       /\ hist' = Append(hist, [fn |-> "ensureColorInTheme", arg |-> color,
                                before |-> context.theme, after |-> res.theme,
                                ok |-> res.ok, id |-> res.id, error |-> res.error])
  /\ UNCHANGED <<operations, pc, idx, resolvedParams, error, sent, events,
                 googleFontCache>>

NextColors == \E color \in ColorInputs : CallEnsureColor(color)

SpecColors == InitColors /\ [][NextColors]_vars

InitFonts ==
  /\ IdlePipeline
  /\ \E n \in 0..MaxFonts :
       /\ context = [NewContext(<<>>) EXCEPT !.theme = ThemeWithFonts(n).theme]
       /\ googleFontCache = ThemeWithFonts(n).cache
       /\ idSeq = n

CallEnsureFont(fontName, fetch) ==
  /\ Len(hist) < MaxCalls
  /\ LET res == ensureFontInTheme(context.theme, fontName, idSeq,
                                  googleFontCache, fetch) IN
       /\ context' = [context EXCEPT !.theme = res.theme]
       /\ idSeq' = idSeq + res.ids
       /\ googleFontCache' = res.cache
       /\ hist' = Append(hist, [fn |-> "ensureFontInTheme", arg |-> fontName,
                                before |-> context.theme, after |-> res.theme,
                                ok |-> res.ok, id |-> res.id, error |-> res.error])
  /\ UNCHANGED <<operations, pc, idx, resolvedParams, error, sent, events>>

NextFonts ==
  \E fontName \in FontInputs, fetch \in FetchOutcomes : CallEnsureFont(fontName, fetch)

SpecFonts == InitFonts /\ [][NextFonts]_vars

(***************************************************************************)
(* Direct calls of resolveParameters on an operationOutputs map the        *)
(* pipeline can have built: some steps with a recorded (defined) output.   *)
(***************************************************************************)
ImageUrl == JStr(<<"https://x/img.png">>)
CanvasOutput == JObj(<<[key |-> "width", value |-> JNum(1240)],
                       [key |-> "height", value |-> JNum(1748)]>>)

OutputValues == {ImageUrl, CanvasOutput, JNull}
OutputSteps == <<1, 2, 12>>

\* Every map from a subset of OutputSteps to OutputValues, built by Map.set.
RECURSIVE OutputMaps(_)
OutputMaps(k) ==
  IF k = 0 THEN {<<>>}
  ELSE LET smaller == OutputMaps(k - 1) IN
       smaller \cup {MapSet(m, JNum(OutputSteps[k]), v) : m \in smaller, v \in OutputValues}

Placeholder(digits) == JStr(<<PlaceholderPrefix>> \o digits)

ResolveInputs ==
  { Placeholder(<<"2">>),
    Placeholder(<<"9">>),
    Placeholder(<<"0", "2">>),
    Placeholder(<<"1", "2">>),
    Placeholder(<<>>),
    JStr(<<"x", PlaceholderPrefix, "2">>),
    JStr(<<PlaceholderPrefix, "2", "x">>),
    ImageUrl,
    JNum(2),
    JArr(<<Placeholder(<<"1">>), ImageUrl>>),
    JObj(<<[key |-> "input_image", value |-> Placeholder(<<"2">>)],
           [key |-> "x", value |-> JNum(2)]>>),
    JObj(<<[key |-> "input_images",
            value |-> JArr(<<Placeholder(<<"1">>), Placeholder(<<"9">>)>>)]>>),
    JObj(<<[key |-> PlaceholderPrefix \o "1",
            value |-> JArr(<<JObj(<<[key |-> "mask", value |-> Placeholder(<<"1">>)],
                                    [key |-> "note",
                                     value |-> JStr(<<"see ", PlaceholderPrefix, "1">>)]>>),
                             JNum(1), JNull>>)]>>),
    JObj(<<[key |-> "__proto__",
            value |-> JObj(<<[key |-> "input_image", value |-> Placeholder(<<"1">>)]>>)],
           [key |-> "layer_name", value |-> JStr(<<"photo">>)]>>) }

InitResolve ==
  /\ IdlePipeline
  /\ \E m \in OutputMaps(Len(OutputSteps)) :
       context = [NewContext(<<>>) EXCEPT !.operationOutputs = m]
  /\ idSeq = 0
  /\ googleFontCache = <<>>

CallResolve(params) ==
  /\ Len(hist) < MaxCalls
  /\ LET res == resolveParameters(params, context.operationOutputs) IN
       hist' = Append(hist, [fn |-> "resolveParameters", arg |-> params,
                             outputs |-> context.operationOutputs,
                             ok |-> res.ok, value |-> res.value,
                             error |-> res.error])
  /\ UNCHANGED <<operations, pc, idx, context, resolvedParams, error, sent,
                 events, idSeq, googleFontCache>>

NextResolve == \E params \in ResolveInputs : CallResolve(params)

SpecResolve == InitResolve /\ [][NextResolve]_vars

(***************************************************************************)
(* The operation lists the executor is started with.                       *)
(***************************************************************************)
MaxOps == 3
StressLen == 9
StepBases == {0, 1}

Operation(name, entries) == [operation |-> name, parameters |-> JObj(entries)]

StepReference(n) == JStr(<<PlaceholderPrefix, n>>)

OperationPool ==
  << Operation("create_canvas",
       << [key |-> "width", value |-> JNum(1240)],
          [key |-> "height", value |-> JNum(1748)],
          [key |-> "background_color",
           value |-> JStr(<<"#", "F", "F", "F", "F", "0", "0">>)] >>),
     Operation("create_canvas",
       << [key |-> "width", value |-> JNum(0)],
          [key |-> "height", value |-> JNum(600)] >>),
     Operation("add_text_layer",
       << [key |-> "layer_name", value |-> JStr(<<"title">>)],
          [key |-> "text", value |-> JStr(<<"Hello">>)],
          [key |-> "anchor", value |-> JStr(Chars_center)] >>),
     Operation("add_image_layer",
       << [key |-> "layer_name", value |-> JStr(<<"photo">>)],
          [key |-> "input_image", value |-> StepReference("1")] >>),
     Operation("generate_image",
       << [key |-> "prompt", value |-> JStr(<<"a cat">>)] >>),
     Operation("edit_image",
       << [key |-> "prompt", value |-> JStr(<<"brighter">>)],
          [key |-> "input_images", value |-> JArr(<<StepReference("0")>>)] >>),
     Operation("resize_image", <<>>),
     Operation("rotate_layer", <<>>) >>

\* The operations of a list get consecutive step numbers, counted from base.
Numbered(ops, base) ==
  [i \in 1..Len(ops) |->
     [step |-> JNum(i - 1 + base), operation |-> ops[i].operation,
      parameters |-> ops[i].parameters]]

PoolLists ==
  { Numbered([i \in DOMAIN choice |-> OperationPool[choice[i]]], base) :
      choice \in UNION {[1..n -> 1..Len(OperationPool)] : n \in 0..MaxOps},
      base \in StepBases }

\* Text layers that each bring two new colours (text and shadow), one font.
ColorfulLayer(i) ==
  Operation("add_text_layer",
    << [key |-> "layer_name", value |-> JStr(<<"layer", ToString(i)>>)],
       [key |-> "text", value |-> JStr(<<"Hello">>)],
       [key |-> "color", value |-> JStr(BaseColor(2 * i - 1))],
       [key |-> "shadow_enabled", value |-> JBool(TRUE)],
       [key |-> "shadow_color", value |-> JStr(BaseColor(2 * i))] >>)

\* Text layers that each bring a new font, one colour.
FontfulLayer(i) ==
  Operation("add_text_layer",
    << [key |-> "layer_name", value |-> JStr(<<"layer", ToString(i)>>)],
       [key |-> "text", value |-> JStr(<<"Hello">>)],
       [key |-> "font", value |-> JStr(BaseFont(i))] >>)

\* Lists long enough to fill a palette, and to overflow it by one step.
PaletteLists ==
  { Numbered([i \in 1..n |-> layer[i]], 1) :
      n \in {StressLen - 1, StressLen},
      layer \in { [i \in 1..StressLen |-> ColorfulLayer(i)],
                  [i \in 1..StressLen |-> FontfulLayer(i)] } }

\* Parameters of the layer operations.
Name(key, name) == [key |-> key, value |-> JStr(<<name>>)]

TitleLayer ==
  Operation("add_text_layer", <<Name("layer_name", "title"), Name("text", "Hello")>>)
PhotoLayer ==
  Operation("add_image_layer",
    <<Name("layer_name", "photo"), Name("input_image", "photo.png"),
      [key |-> "width", value |-> JNum(200)], [key |-> "height", value |-> JNum(100)]>>)
BoxContainer ==
  Operation("create_flex_container",
    <<Name("container_name", "box"), [key |-> "x", value |-> JNum(20)],
      [key |-> "width", value |-> JNum(400)]>>)
MoveInto(layer, container) ==
  Operation("add_layer_to_container",
    <<Name("layer_name", layer), Name("container_name", container)>>)

\* Lists that build layers and containers and then edit, move and delete them.
LayerLists ==
  { Numbered(ops, 1) : ops \in {
      << BoxContainer, TitleLayer, MoveInto("title", "box"),
         Operation("set_flex_layout",
           <<Name("container_name", "box"), Name("direction", "column"),
             [key |-> "gap", value |-> JNum(8)]>>),
         Operation("edit_text_layer",
           <<Name("layer_name", "title"), Name("text_content", "Bye"),
             [key |-> "font_name", value |-> JStr(<<"L", "a", "t", "o">>)],
             [key |-> "color", value |-> JStr(<<"#", "F", "F", "0", "0", "0", "0">>)],
             [key |-> "font_size", value |-> JNum(24)]>>),
         Operation("set_layer_visibility",
           <<Name("layer_name", "title"), [key |-> "visible", value |-> JBool(FALSE)]>>),
         Operation("delete_layer", <<Name("layer_name", "box")>>) >>,
      << PhotoLayer, TitleLayer,
         Operation("set_layer_anchor",
           <<Name("layer_name", "photo"),
             [key |-> "anchor", value |-> JStr(Dash(Chars_bottom, Chars_right))],
             [key |-> "offset_x", value |-> JNum(10)],
             [key |-> "offset_y", value |-> JNum(-10)]>>),
         Operation("set_layer_anchor",
           <<Name("layer_name", "title"), Name("relative_to", "photo"),
             [key |-> "anchor", value |-> JStr(Chars_center)]>>),
         Operation("delete_layer", <<Name("layer_name", "photo")>>),
         Operation("edit_text_layer", <<Name("layer_name", "photo")>>) >>,
      << BoxContainer, PhotoLayer, MoveInto("photo", "box"), MoveInto("box", "box") >>,
      << PhotoLayer, TitleLayer, MoveInto("title", "photo") >>,
      << PhotoLayer, Operation("edit_text_layer", <<Name("layer_name", "photo")>>) >>,
      << BoxContainer, Operation("set_flex_layout", <<Name("container_name", "lid")>>) >>
    } }

CrateContainer ==
  Operation("create_flex_container", <<Name("container_name", "crate")>>)

\* Lists that nest containers and move layers and containers between them.
TreeLists ==
  { Numbered(ops, 1) : ops \in {
      << BoxContainer, PhotoLayer, TitleLayer, MoveInto("photo", "box"),
         Operation("delete_layer", <<Name("layer_name", "title")>>) >>,
      << BoxContainer, CrateContainer, MoveInto("crate", "box"), PhotoLayer,
         MoveInto("photo", "crate"), MoveInto("box", "crate") >>,
      << BoxContainer, CrateContainer, MoveInto("crate", "box"), TitleLayer,
         MoveInto("title", "box"), MoveInto("title", "crate"),
         MoveInto("crate", "crate") >>,
      << Operation("create_canvas",
           <<[key |-> "width", value |-> JNum(640)],
             [key |-> "height", value |-> JNum(480)],
             [key |-> "background_color",
              value |-> JStr(<<"#", "F", "F", "F", "F", "0", "0">>)]>>),
         TitleLayer,
         Operation("edit_text_layer",
           <<Name("layer_name", "title"),
             [key |-> "font_name", value |-> JStr(<<"L", "a", "t", "o">>)],
             [key |-> "color", value |-> JStr(<<"#", "F", "F", "0", "0", "0", "0">>)]>>) >>
    } }

\* Canvas sizes that are truthy although they are not positive, and a size given
\* as text.
CanvasOf(width, height) ==
  Operation("create_canvas", <<[key |-> "width", value |-> width],
                               [key |-> "height", value |-> height]>>)

CanvasLists ==
  { Numbered(ops, 1) : ops \in {
      << CanvasOf(JNum(-100), JNum(600)) >>,
      << CanvasOf(JNum(640), JNum(-480)), TitleLayer >>,
      << CanvasOf(JStr(<<"wide">>), JNum(600)) >>,
      << CanvasOf(JNum(640), JNum(0)) >>
    } }

\* The operations without an implementation, with and without parameters, after
\* a layer has been built and before another one.
PlaceholderLists ==
  { Numbered(<<PhotoLayer,
               Operation(name, <<Name("layer_name", "photo"),
                                 [key |-> "width", value |-> JNum(10)]>>),
               TitleLayer>>, 1) :
      name \in {"resize_image", "crop_image", "remove_background", "upscale",
                "segment"} }
  \cup { Numbered(<<Operation(name, <<>>)>>, 1) :
           name \in {"crop_image", "remove_background", "upscale", "segment"} }

\* Lists that use a layer name a second time.
NamedImage(name) ==
  Operation("add_image_layer", <<Name("layer_name", name), Name("input_image", "b.png")>>)

ReuseLists ==
  { Numbered(ops, 1) : ops \in {
      << PhotoLayer, NamedImage("photo") >>,
      << BoxContainer, NamedImage("box"), MoveInto("box", "box") >>,
      << TitleLayer, NamedImage("title"),
         Operation("delete_layer", <<Name("layer_name", "title")>>) >>
    } }

\* Steps whose parameters refer to a step without output, under a name the
\* registry has and under names it does not have.
Dangling(name) ==
  Operation(name, <<Name("layer_name", "photo"),
                    [key |-> "input_image", value |-> StepReference("7")]>>)

OrderLists ==
  { Numbered(ops, 1) : ops \in {
      << Dangling("rotate_layer") >>,
      << PhotoLayer, Dangling("blur_layer"), TitleLayer >>,
      << PhotoLayer, Dangling("add_image_layer") >>
    } }

\* An object whose own toString is not callable: ToString throws on it.
Unprintable == JObj(<<[key |-> "toString", value |-> JNum(1)]>>)

\* Image layers whose width is kept as it is in the style of the element.
RenderLists ==
  { Numbered(ops, 1) : ops \in {
      << Operation("add_image_layer",
           <<Name("layer_name", "photo"), Name("input_image", "photo.png"),
             [key |-> "width", value |-> Unprintable]>>) >>,
      << TitleLayer,
         Operation("add_image_layer",
           <<Name("layer_name", "photo"), Name("input_image", "photo.png"),
             [key |-> "width", value |-> JObj(<<>>)]>>) >>
    } }

\* add_text_layer with every combination of an anchor, an x and a y that are
\* absent or a value.
PlacementAnchors == {JUndefined, JStr(Chars_center), JStr(Dash(Chars_bottom, Chars_right))}
PlacementXs == {JUndefined, JNum(0), JNum(10)}
PlacementYs == {JUndefined, JNum(20)}

\* The entries of the parameters that are present.
Present(entries) == SelectSeq(entries, LAMBDA e : e.value # JUndefined)

PlacementLists ==
  { Numbered(<<Operation("add_text_layer",
       Present(<<Name("layer_name", "title"), Name("text", "Hello"),
                 [key |-> "anchor", value |-> anchor],
                 [key |-> "x", value |-> x], [key |-> "y", value |-> y]>>))>>, 1) :
      anchor \in PlacementAnchors, x \in PlacementXs, y \in PlacementYs }

OperationLists ==
  PlacementLists \cup RenderLists \cup PoolLists \cup PaletteLists \cup LayerLists \cup TreeLists \cup CanvasLists
    \cup PlaceholderLists \cup ReuseLists \cup OrderLists

(***************************************************************************)
(* executeOperations.                                                      *)
(*   pc = "Pending"   nothing done yet                                     *)
(*        "Loop"      between two steps of the for-of loop                 *)
(*        "Handler"   step idx: parameters resolved, handler to be called  *)
(*        "Awaiting"  step idx: the handler awaits its external capability *)
(*        "Save"      the scene is valid, saveSceneToDirectory to be called*)
(*        "Render"    the scene is saved, preview and completion to come   *)
(*        "Completed" EXECUTION_COMPLETE sent                              *)
(*        "Failed"    EXECUTION_FAILED sent                                *)
(* events logs, in order: "progress", "invoke", "return", "record",        *)
(* "throw", "validate", "save", "render", "complete" and "failed", each    *)
(* with the list position                                                  *)
(* (0 after the loop); a "return" carries the output, a "record" the key   *)
(* it is stored under.                                                     *)
(***************************************************************************)
OPERATION_HANDLERS ==
  {"create_canvas", "add_image_layer", "add_text_layer", "edit_text_layer",
   "set_layer_visibility", "delete_layer", "generate_image", "edit_image",
   "resize_image", "crop_image", "remove_background", "upscale", "segment",
   "set_layer_anchor", "create_flex_container", "add_layer_to_container",
   "set_flex_layout"}

\* The handlers that await the generative-image capability.
AwaitsReplicate == {"generate_image", "edit_image"}

EventWith(ev, pos, value) == [ev |-> ev, pos |-> pos, value |-> value]
Event(ev, pos) == EventWith(ev, pos, JUndefined)

ProgressMessage(op, total) ==
  [type |-> "EXECUTION_PROGRESS",
   data |-> [type |-> "progress", currentStep |-> op.step, totalSteps |-> total,
             operation |-> op.operation,
             message |-> "Executing " \o op.operation \o "..."]]

\* error.step, error.operation: own properties the Error classes never set.
ErrorProperty(err, key) == IF key \in DOMAIN err THEN err[key] ELSE JUndefined

\* operations.findIndex(op => op.step === step), 0-based, -1 when there is none.
FindIndexOfStep(ops, step) ==
  IF \E i \in 1..Len(ops) : ops[i].step = step
  THEN (CHOOSE i \in 1..Len(ops) :
          ops[i].step = step /\ \A j \in 1..(i - 1) : ops[j].step # step) - 1
  ELSE -1

\* The catch block's message.
FailedMessage(ops, err) ==
  LET found == FindIndexOfStep(ops, ErrorProperty(err, "step")) + 1
      operation == ErrorProperty(err, "operation")
  IN
  [type |-> "EXECUTION_FAILED",
   data |-> [type |-> "failed",
             step |-> IF found = 0 THEN 0 ELSE found,
             operation |-> IF Falsy(operation) THEN JStr(<<"unknown">>) ELSE operation,
             error |-> IF err.message = "" THEN "Unknown error occurred"
                       ELSE err.message]]

CompleteMessage(ctx, preview) ==
  [type |-> "EXECUTION_COMPLETE",
   data |-> [type |-> "complete", sceneId |-> ctx.sceneId,
             scenePath |-> "scenes/" \o ctx.sceneId,
             preview |-> preview]]

\* Mutant: the completion is announced before the scene is saved.
PcCompleteBeforeSave == "Save"

\* ws.send(EXECUTION_COMPLETE) is the last statement of the try block.
PcAfterComplete == "Completed"

\* Mutant: a failed step is reported and skipped, the loop goes on.
PcSkipAndContinue == "Loop"

\* Where a throw inside the try block leaves the run: the catch block ends it.
PcAfterCatch == "Failed"

\* A throw at list position pos (0: after the loop) with the messages sent so
\* far: the catch block sends EXECUTION_FAILED.
Catch(err, pos, sentSoFar, log) ==
  /\ error' = err
  /\ sent' = Append(sentSoFar, FailedMessage(operations, err))
  /\ events' = log \o <<Event("throw", pos), Event("failed", pos)>>
  /\ pc' = PcAfterCatch

(***************************************************************************)
(* renderScene (the renderer module).  The html and the css are chunk      *)
(* sequences.  A template literal `${v}` calls ToString(v), which throws a *)
(* TypeError on an object whose own toString is not callable (any JSON     *)
(* object with a "toString" key); the throw is carried as the chunk Abrupt *)
(* through the concatenations and ends renderScene.                        *)
(***************************************************************************)
RECURSIVE Text(_)
\* The string a sequence of chunks spells.
Text(chunks) == IF chunks = <<>> THEN "" ELSE Head(chunks) \o Text(Tail(chunks))

Abrupt == "<TypeError: Cannot convert object to primitive value>"

RECURSIVE Stringifies(_)
\* ToString(v) returns.
Stringifies(v) ==
  IF v.kind = "object" THEN ~MapHas(v.entries, "toString")
  ELSE IF v.kind = "array" THEN \A i \in 1..Len(v.items) : Stringifies(v.items[i])
  ELSE TRUE

\* `${v}`
Interpolate(v) == IF Stringifies(v) THEN ToChunks(v) ELSE <<Abrupt>>

\* `${v || ''}`
InterpolateOrEmpty(v) == IF Falsy(v) THEN <<>> ELSE Interpolate(v)

\* key.replace(/_/g, '-') on the style keys the handlers write.
CssProperty(key) ==
  CASE key = "background_color" -> "background-color"
    [] key = "border_color" -> "border-color"
    [] key = "font_size" -> "font-size"
    [] key = "font_weight" -> "font-weight"
    [] key = "font_style" -> "font-style"
    [] key = "text_align" -> "text-align"
    [] key = "text_shadow" -> "text-shadow"
    [] key = "flex_direction" -> "flex-direction"
    [] key = "justify_content" -> "justify-content"
    [] key = "align_items" -> "align-items"
    [] key = "border_radius" -> "border-radius"
    [] key = "z_index" -> "z-index"
    [] OTHER -> key

\* map.has(value) and map.get(value) of the Map built from a palette with
\* forEach(set): the last entry with the id, 0 when there is none.
PaletteIndex(ids, value) ==
  IF value.kind = "string" /\ \E i \in 1..Len(ids) : ids[i] = Text(value.chars)
  THEN CHOOSE i \in 1..Len(ids) :
         /\ ids[i] = Text(value.chars)
         /\ \A j \in (i + 1)..Len(ids) : ids[j] # Text(value.chars)
  ELSE 0

FontIdsOf(theme) == [i \in 1..Len(theme.font_palette) |-> theme.font_palette[i].font_id]
ColorIdsOf(theme) == [i \in 1..Len(theme.color_palette) |-> theme.color_palette[i].id]

Is100Percent(style, key) ==
  /\ MapHas(style, key)
  /\ MapGet(style, key).kind = "string"
  /\ Text(MapGet(style, key).chars) = "100%"

\* One iteration of the for-of loop of convertStyleToCSS.
StyleEntryCSS(entry, theme) ==
  LET font == PaletteIndex(FontIdsOf(theme), entry.value)
      color == PaletteIndex(ColorIdsOf(theme), entry.value)
  IN
  IF entry.value = JUndefined THEN <<>>
  ELSE IF entry.key = "font" /\ font > 0
  THEN <<"  font-family: '">> \o theme.font_palette[font].font_name \o <<"', serif;\n">>
  ELSE <<"  ", IF entry.key = "fill" THEN "background-color" ELSE CssProperty(entry.key),
         ": ">>
       \o (IF entry.key \in {"color", "fill", "background_color", "border_color"}
              /\ color > 0
           THEN <<"rgba(", NumberChunk(theme.color_palette[color].r), ", ",
                  NumberChunk(theme.color_palette[color].g), ", ",
                  NumberChunk(theme.color_palette[color].b), ", ",
                  NumberChunk(theme.color_palette[color].a), ")">>
           ELSE Interpolate(entry.value))
       \o <<";\n">>

RECURSIVE StyleEntriesCSS(_, _)
StyleEntriesCSS(style, theme) ==
  IF style = <<>> THEN <<>>
  ELSE StyleEntryCSS(Head(style), theme) \o StyleEntriesCSS(Tail(style), theme)

\* Mutant: the layering block is added whether or not the style sets a position.
convertStyleAlwaysLayered(style, theme) ==
  (IF Is100Percent(style, "width") /\ Is100Percent(style, "height")
   THEN <<"  position: absolute;\n", "  top: 0;\n", "  left: 0;\n", "  z-index: 0;\n">>
   ELSE <<"  position: relative;\n", "  z-index: 1;\n">>)
  \o StyleEntriesCSS(style, theme)

convertStyleToCSS(style, theme) ==
  LET isFullSize == Is100Percent(style, "width") /\ Is100Percent(style, "height")
      hasExplicitPosition ==
        MapHas(style, "position") /\ MapGet(style, "position") # JUndefined
  IN
  (IF isFullSize /\ ~hasExplicitPosition
   THEN <<"  position: absolute;\n", "  top: 0;\n", "  left: 0;\n", "  z-index: 0;\n">>
   ELSE IF ~hasExplicitPosition
   THEN <<"  position: relative;\n", "  z-index: 1;\n">>
   ELSE <<>>)
  \o StyleEntriesCSS(style, theme)

\* prefix ? `${prefix}-${element.element_id}` : element.element_id
ClassName(prefix, element) ==
  IF prefix = "" THEN element.element_id ELSE prefix \o "-" \o element.element_id

ChildrenOrNone(element) ==
  IF "children" \in DOMAIN element THEN element.children ELSE <<>>

RECURSIVE generateElementCSS(_, _, _)
\* elements.forEach(generateElementCSS) with the prefix of the parent.
generateElementCSS(elements, theme, prefix) ==
  IF elements = <<>> THEN <<>>
  ELSE (IF "style" \in DOMAIN Head(elements)
           /\ convertStyleToCSS(Head(elements).style, theme) # <<>>
        THEN <<".", ClassName(prefix, Head(elements)), " {\n">>
               \o convertStyleToCSS(Head(elements).style, theme) \o <<"}\n\n">>
        ELSE <<>>)
       \o generateElementCSS(ChildrenOrNone(Head(elements)), theme,
                             ClassName(prefix, Head(elements)))
       \o generateElementCSS(Tail(elements), theme, prefix)

RECURSIVE FontImports(_)
\* theme.font_palette.map(font => `@import url('${font.font_url}');`).join('\n')
FontImports(fonts) ==
  IF fonts = <<>> THEN <<>>
  ELSE <<"@import url('">> \o Head(fonts).font_url \o <<"');">>
       \o (IF Len(fonts) > 1 THEN <<"\n">> ELSE <<>>) \o FontImports(Tail(fonts))

generateCSS(theme, template) ==
  FontImports(theme.font_palette) \o <<"\n\n">>
  \o <<".scene-container {\n  width: ">> \o Interpolate(template.canvas.width)
  \o <<"px;\n  height: ">> \o Interpolate(template.canvas.height)
  \o <<"px;\n  position: relative;\n  overflow: hidden;\n  box-sizing: border-box;\n}\n\n">>
  \o <<".scene-container * {\n  box-sizing: border-box;\n}\n\n">>
  \o generateElementCSS(template.elements, theme, "")

\* '  '.repeat(indentLevel)
Indent(indentLevel) == [i \in 1..indentLevel |-> "  "]

\* Mutant: an element whose data item is missing is emitted as an empty div.
DataItemHTMLWithPlaceholder(element, data_items, className, indent) ==
  indent \o <<"<div class=\"", className, "\"></div>\n">>

generateDataItemHTML(element, data_items, className, indent) ==
  LET k == IF "data_item_id" \in DOMAIN element
           THEN DataItemIndex(data_items, element.data_item_id) ELSE 0
      \* dataItemMap.get: the last item with the id
      last == IF k = 0 THEN 0
              ELSE CHOOSE i \in 1..Len(data_items) :
                     /\ data_items[i].id = element.data_item_id
                     /\ \A j \in (i + 1)..Len(data_items) :
                          data_items[j].id # element.data_item_id
  IN
  IF last = 0 THEN <<>>
  ELSE IF data_items[last].type = "text"
  THEN indent \o <<"<div class=\"", className, "\">">>
       \o InterpolateOrEmpty(data_items[last].content) \o <<"</div>\n">>
  ELSE IF data_items[last].type = "image"
  THEN indent \o <<"<img class=\"", className, "\" src=\"">>
       \o InterpolateOrEmpty(data_items[last].image_url) \o <<"\" alt=\"">>
       \o Interpolate(data_items[last].display_name) \o <<"\" />\n">>
  ELSE <<>>

RECURSIVE generateElementHTML(_, _, _, _)
\* elements.forEach(generateElementHTML) at one indent level and parent prefix.
generateElementHTML(elements, data_items, indentLevel, parentPrefix) ==
  IF elements = <<>> THEN <<>>
  ELSE (CASE Head(elements).element_type = "data_item" ->
               generateDataItemHTML(Head(elements), data_items,
                                    ClassName(parentPrefix, Head(elements)),
                                    Indent(indentLevel))
          [] Head(elements).element_type = "shape" ->
               Indent(indentLevel)
               \o <<"<div class=\"", ClassName(parentPrefix, Head(elements)), "\"></div>\n">>
          [] Head(elements).element_type = "container" ->
               Indent(indentLevel)
               \o <<"<div class=\"", ClassName(parentPrefix, Head(elements)), "\">\n">>
               \o generateElementHTML(ChildrenOrNone(Head(elements)), data_items,
                                      indentLevel + 1,
                                      ClassName(parentPrefix, Head(elements)))
               \o Indent(indentLevel) \o <<"</div>\n">>
          [] OTHER -> <<>>)
       \o generateElementHTML(Tail(elements), data_items, indentLevel, parentPrefix)

generateHTML(template, data) ==
  <<"<div class=\"scene-container\">\n">>
  \o generateElementHTML(template.elements, data.data_items, 1, "")
  \o <<"</div>">>

IsAbrupt(chunks) == \E i \in 1..Len(chunks) : chunks[i] = Abrupt

\* The properties renderScene dereferences exist; on a document without them
\* it throws a TypeError (forEach or width of undefined).
Shaped(scene) ==
  /\ "data_items" \in DOMAIN scene.data
  /\ {"color_palette", "font_palette"} \subseteq DOMAIN scene.theme
  /\ {"canvas", "elements"} \subseteq DOMAIN scene.template

\* renderScene(scene): [threw, html, css]; the css is generated first.
renderScene(scene) ==
  IF ~Shaped(scene) THEN [threw |-> TRUE, html |-> <<>>, css |-> <<>>]
  ELSE IF IsAbrupt(generateCSS(scene.theme, scene.template))
     \/ IsAbrupt(generateHTML(scene.template, scene.data))
  THEN [threw |-> TRUE, html |-> <<>>, css |-> <<>>]
  ELSE [threw |-> FALSE,
        html |-> generateHTML(scene.template, scene.data),
        css |-> generateCSS(scene.theme, scene.template)]

\* The scene of an ExecutionContext.
SceneOf(ctx) == [data |-> ctx.data, template |-> ctx.template, theme |-> ctx.theme]

(***************************************************************************)
(* validateScene.                                                          *)
(***************************************************************************)
RECURSIVE DanglingDataItems(_, _)
\* The data_item elements, in checkElement's order, whose data item is missing.
DanglingDataItems(elements, dataItemIds) ==
  IF elements = <<>> THEN <<>>
  ELSE LET e == Head(elements)
           own == IF /\ e.element_type = "data_item"
                     /\ "data_item_id" \in DOMAIN e
                     /\ e.data_item_id \notin dataItemIds
                  THEN <<e.data_item_id>> ELSE <<>>
           below == IF "children" \in DOMAIN e
                    THEN DanglingDataItems(e.children, dataItemIds) ELSE <<>>
       IN own \o below \o DanglingDataItems(Tail(elements), dataItemIds)

validateScene(ctx) ==
  LET dataItemIds == {ctx.data.data_items[i].id : i \in 1..Len(ctx.data.data_items)}
  IN
  IF Falsy(ctx.template.canvas.width) \/ Falsy(ctx.template.canvas.height)
  THEN ValidationError("Canvas not initialized")
  ELSE IF Len(ctx.theme.color_palette) > MaxColors
  THEN ValidationError("Color palette exceeds limit of 16 colors")
  ELSE IF Len(ctx.theme.font_palette) > MaxFonts
  THEN ValidationError("Font palette exceeds limit of 8 fonts")
  ELSE IF DanglingDataItems(ctx.template.elements, dataItemIds) # <<>>
  THEN ValidationError("Element references non-existent data item")
  ELSE NoError

(***************************************************************************)
(* The steps of the loop.                                                  *)
(***************************************************************************)
\* Mutant: the output is stored under the list index of the step.
OutputKeyByIndex(op, pos) == JNum(pos - 1)

\* context.operationOutputs.set(operation.step, result.output)
OutputKey(op, pos) == op.step

\* Mutant: the parameters are resolved before the handler is looked up.
EnterStepResolvingFirst ==
  /\ pc \in {"Pending", "Loop"}
  /\ idx < Len(operations)
  /\ LET pos == idx + 1
         op == operations[pos]
         progress == Append(sent, ProgressMessage(op, context.totalSteps))
         log == Append(events, Event("progress", pos))
         resolved == resolveParameters(op.parameters, context.operationOutputs)
     IN
     /\ idx' = pos
     /\ context' = [context EXCEPT !.currentStep = op.step]
     /\ IF ~resolved.ok
        THEN /\ Catch(resolved.error, pos, progress, log)
             /\ UNCHANGED resolvedParams
        ELSE IF op.operation \notin OPERATION_HANDLERS
        THEN /\ Catch(ValidationError("Unknown operation"), pos, progress, log)
             /\ UNCHANGED resolvedParams
        ELSE /\ resolvedParams' = resolved.value
             /\ sent' = progress
             /\ events' = log
             /\ pc' = "Handler"
             /\ UNCHANGED error
  /\ UNCHANGED <<operations, idSeq, googleFontCache, hist>>

\* for (const operation of operations): the next operation is taken; progress is
\* sent, the handler is looked up, the parameters are resolved.
EnterStep ==
  /\ pc \in {"Pending", "Loop"}
  /\ idx < Len(operations)
  /\ LET pos == idx + 1
         op == operations[pos]
         progress == Append(sent, ProgressMessage(op, context.totalSteps))
         log == Append(events, Event("progress", pos))
         resolved == resolveParameters(op.parameters, context.operationOutputs)
     IN
     /\ idx' = pos
     /\ context' = [context EXCEPT !.currentStep = op.step]
     /\ IF op.operation \notin OPERATION_HANDLERS
        THEN /\ Catch(ValidationError("Unknown operation"), pos, progress, log)
             /\ UNCHANGED resolvedParams
        ELSE IF ~resolved.ok
        THEN /\ Catch(resolved.error, pos, progress, log)
             /\ UNCHANGED resolvedParams
        ELSE /\ resolvedParams' = resolved.value
             /\ sent' = progress
             /\ events' = log
             /\ pc' = "Handler"
             /\ UNCHANGED error
  /\ UNCHANGED <<operations, idSeq, googleFontCache, hist>>

\* The handler has ended: a throw goes to the catch block; a result is checked
\* and its output, when defined, is stored under the step number.
EndStep(res, log) ==
  LET op == operations[idx] IN
  /\ idSeq' = idSeq + res.ids
  /\ googleFontCache' = res.cache
  /\ IF res.threw
     THEN /\ context' = res.context
          /\ Catch(res.error, idx, sent, log)
     ELSE /\ context' =
               IF res.output # JUndefined
               THEN [res.context EXCEPT !.operationOutputs =
                       MapSet(@, OutputKey(op, idx), res.output)]
               ELSE res.context
          /\ events' = log \o <<EventWith("return", idx, res.output)>>
                           \o (IF res.output # JUndefined
                               THEN <<EventWith("record", idx, OutputKey(op, idx))>>
                               ELSE <<>>)
          /\ pc' = "Loop"
          /\ UNCHANGED <<error, sent>>
  /\ UNCHANGED <<operations, idx, resolvedParams, hist>>

\* await handler(context, resolvedParams), for the handlers that run to their
\* end without the generative-image capability.  fetch is the answer of the
\* font catalogue, should ensureFontInTheme ask it.
CallHandler(name, fetch) ==
  IF name = "create_canvas" THEN handleCreateCanvas(context, resolvedParams, idSeq)
  ELSE IF name = "add_image_layer"
  THEN handleAddImageLayer(context, resolvedParams, idSeq)
  ELSE IF name = "add_text_layer"
  THEN handleAddTextLayer(context, resolvedParams, idSeq, googleFontCache, fetch)
  ELSE IF name = "edit_text_layer"
  THEN handleEditTextLayer(context, resolvedParams, idSeq, googleFontCache, fetch)
  ELSE IF name = "set_layer_visibility"
  THEN handleSetLayerVisibility(context, resolvedParams)
  ELSE IF name = "delete_layer" THEN handleDeleteLayer(context, resolvedParams)
  ELSE IF name = "set_layer_anchor" THEN handleSetLayerAnchor(context, resolvedParams)
  ELSE IF name = "create_flex_container"
  THEN handleCreateFlexContainer(context, resolvedParams, idSeq)
  ELSE IF name = "add_layer_to_container"
  THEN handleAddLayerToContainer(context, resolvedParams)
  ELSE IF name = "set_flex_layout" THEN handleSetFlexLayout(context, resolvedParams)
  ELSE handleNotImplemented(context, name)

\* Whether the call asks the font catalogue: only then the answer matters.
AsksFontCatalogue(name) == name \in {"add_text_layer", "edit_text_layer"}

InvokeHandler ==
  /\ pc = "Handler"
  /\ operations[idx].operation \notin AwaitsReplicate
  /\ \E fetch \in FetchOutcomes :
       /\ AsksFontCatalogue(operations[idx].operation) \/ fetch = "ok"
       /\ EndStep(CallHandler(operations[idx].operation, fetch),
                  Append(events, Event("invoke", idx)))

\* A handler that calls the generative-image capability: it checks its
\* parameters and, if they pass, suspends until the capability answers.
CallReplicateHandler(name, reply) ==
  IF name = "generate_image" THEN handleGenerateImage(context, resolvedParams, reply)
  ELSE handleEditImage(context, resolvedParams, reply)

InvokeReplicateHandler ==
  /\ pc = "Handler"
  /\ operations[idx].operation \in AwaitsReplicate
  /\ LET early == CallReplicateHandler(operations[idx].operation, "reject")
         rejected == early.threw /\ early.error.message \in
                       {"prompt is required", "input_images and prompt are required"}
     IN
     IF rejected
     THEN EndStep(early, Append(events, Event("invoke", idx)))
     ELSE /\ pc' = "Awaiting"
          /\ events' = Append(events, Event("invoke", idx))
          /\ UNCHANGED <<operations, idx, context, resolvedParams, error, sent,
                         idSeq, googleFontCache, hist>>

ReplicateAnswers ==
  /\ pc = "Awaiting"
  /\ \E reply \in ReplicateReplies :
       EndStep(CallReplicateHandler(operations[idx].operation, reply), events)

\* After the loop: validateScene(context).
Validate ==
  /\ pc \in {"Pending", "Loop"}
  /\ idx = Len(operations)
  /\ LET err == validateScene(context) IN
     IF err # NoError
     THEN Catch(err, 0, sent, Append(events, Event("validate", 0)))
     ELSE /\ pc' = "Save"
          /\ events' = Append(events, Event("validate", 0))
          /\ UNCHANGED <<error, sent>>
  /\ UNCHANGED <<operations, idx, context, resolvedParams, idSeq,
                 googleFontCache, hist>>

\* await saveSceneToDirectory(context): the file system accepts or refuses.
Save ==
  /\ pc = "Save"
  /\ \/ /\ pc' = "Render"
        /\ events' = Append(events, Event("save", 0))
        /\ UNCHANGED <<error, sent>>
     \/ Catch(FileSystemError("Failed to save scene files"), 0, sent,
              Append(events, Event("save", 0)))
  /\ UNCHANGED <<operations, idx, context, resolvedParams, idSeq,
                 googleFontCache, hist>>

\* renderScene(scene), then ws.send(EXECUTION_COMPLETE); a throw of renderScene
\* is caught by the catch block of executeOperations.
Complete ==
  /\ pc = "Render"
  /\ LET preview == renderScene(SceneOf(context)) IN
     IF preview.threw
     THEN Catch(TypeError("Cannot convert object to primitive value"), 0,
                sent, Append(events, Event("render", 0)))
     ELSE /\ sent' = Append(sent, CompleteMessage(context,
                         [html |-> preview.html, css |-> preview.css]))
          /\ events' = events \o <<Event("render", 0), Event("complete", 0)>>
          /\ pc' = PcAfterComplete
          /\ error' = error
  /\ UNCHANGED <<operations, idx, context, resolvedParams, idSeq,
                 googleFontCache, hist>>

Next ==
  \/ EnterStep
  \/ InvokeHandler
  \/ InvokeReplicateHandler
  \/ ReplicateAnswers
  \/ Validate
  \/ Save
  \/ Complete

Init ==
  /\ operations \in OperationLists
  /\ pc = "Pending"
  /\ idx = 0
  /\ context = NewContext(operations)
  /\ resolvedParams = JUndefined
  /\ error = NoError
  /\ sent = <<>>
  /\ events = <<>>
  /\ idSeq = 0
  /\ googleFontCache = <<>>
  /\ hist = <<>>

Spec == Init /\ [][Next]_vars

(***************************************************************************)
(* calculateAnchorPosition called once on arguments drawn from small sets. *)
(***************************************************************************)
VerticalParts == {Chars_top, Chars_center, Chars_bottom}
HorizontalParts == {Chars_left, Chars_center, Chars_right}

AnchorName(v, h) == IF v = Chars_center /\ h = Chars_center THEN Chars_center ELSE Dash(v, h)

NineAnchors == {AnchorName(v, h) : v \in VerticalParts, h \in HorizontalParts}

AnchorInputs ==
  NineAnchors \cup {<<"C", "e", "n", "t", "e", "r">>, <<"m", "i", "d", "d", "l", "e">>}
BoxWidths == {1000, 801}
BoxHeights == {1000, 600}
ElementWidths == {100, 0}
ElementHeights == {50, 700}
OffsetsX == {0, 10, -7}
OffsetsY == {0, -10}

InitAnchor ==
  /\ IdlePipeline
  /\ context = NewContext(<<>>)
  /\ idSeq = 0
  /\ googleFontCache = <<>>

CallAnchor(anchor, W, H, w, h, ox, oy) ==
  /\ hist = <<>>
  /\ hist' = <<[fn |-> "calculateAnchorPosition", anchor |-> anchor,
                canvasWidth |-> W, canvasHeight |-> H,
                elementWidth |-> w, elementHeight |-> h,
                offsetX |-> ox, offsetY |-> oy,
                result |-> calculateAnchorPosition(anchor, W, H, w, h, ox, oy)]>>
  /\ UNCHANGED <<operations, pc, idx, context, resolvedParams, error, sent, events,
                 idSeq, googleFontCache>>

NextAnchor ==
  \E anchor \in AnchorInputs, W \in BoxWidths, H \in BoxHeights :
    \E w \in ElementWidths, h \in ElementHeights, ox \in OffsetsX, oy \in OffsetsY :
      CallAnchor(anchor, W, H, w, h, ox, oy)

SpecAnchor == InitAnchor /\ [][NextAnchor]_vars

(***************************************************************************)
(* The id generator as the element-creating handlers use it.  generateId   *)
(* builds an id from the prefix, Date.now() and five digits of             *)
(* Math.random(), and compares it with nothing.  A call of a handler at    *)
(* time now with random digits random numbers its ids from                 *)
(* IdsPerCall * (now * Randoms + random): two calls get the same ids for   *)
(* the same prefix exactly when the clock has not advanced between them    *)
(* and the random digits repeat.  idSeq is the clock.                      *)
(***************************************************************************)
MaxNow == 1
Randoms == 2
IdsPerCall == 8
MaxCreates == 3

IdBase(now, random) == IdsPerCall * (now * Randoms + random)

YellowCanvas ==
  Operation("create_canvas",
    <<[key |-> "width", value |-> JNum(1240)],
      [key |-> "height", value |-> JNum(1748)],
      [key |-> "background_color",
       value |-> JStr(<<"#", "F", "F", "F", "F", "0", "0">>)]>>)

InitIds ==
  /\ IdlePipeline
  /\ context = NewContext(<<>>)
  /\ idSeq = 0
  /\ googleFontCache = <<>>

\* One handler call at time now: the clock does not run backwards.
Created(name, res, now) ==
  /\ Len(hist) < MaxCreates
  /\ now >= idSeq
  /\ ~res.threw
  /\ context' = res.context
  /\ idSeq' = now
  /\ googleFontCache' = res.cache
  /\ hist' = Append(hist, [fn |-> name])
  /\ UNCHANGED <<operations, pc, idx, resolvedParams, error, sent, events>>

CreateCanvas ==
  \E now \in 0..MaxNow, random \in 0..(Randoms - 1) :
    Created("create_canvas",
            handleCreateCanvas(context, YellowCanvas.parameters,
                               IdBase(now, random)), now)

AddImageLayer ==
  \E now \in 0..MaxNow, random \in 0..(Randoms - 1) :
    Created("add_image_layer",
            handleAddImageLayer(context, PhotoLayer.parameters,
                                IdBase(now, random)), now)

AddTextLayer ==
  \E now \in 0..MaxNow, random \in 0..(Randoms - 1) :
    Created("add_text_layer",
            handleAddTextLayer(context, TitleLayer.parameters,
                               IdBase(now, random), googleFontCache, "ok"), now)

CreateFlexContainer ==
  \E now \in 0..MaxNow, random \in 0..(Randoms - 1) :
    Created("create_flex_container",
            handleCreateFlexContainer(context, BoxContainer.parameters,
                                      IdBase(now, random)), now)

NextIds ==
  \/ CreateCanvas
  \/ AddImageLayer
  \/ AddTextLayer
  \/ CreateFlexContainer

SpecIds == InitIds /\ [][NextIds]_vars

(***************************************************************************)
(* Claims about the palette functions.                                     *)
(***************************************************************************)
ColorCalls == {i \in 1..Len(hist) : hist[i].fn = "ensureColorInTheme"}
FontCalls == {i \in 1..Len(hist) : hist[i].fn = "ensureFontInTheme"}
ColorPairs == {i \in ColorCalls : i + 1 \in ColorCalls}
FontPairs == {i \in FontCalls : i + 1 \in FontCalls}

\* A colour literal: an optional '#', then 6 or 8 hexadecimal digits.
IsColorLiteral(color) ==
  LET hex == StripHash(color) IN
  /\ Len(hex) \in {6, 8}
  /\ \A i \in 1..Len(hex) :
       IndexOf(Digits, hex[i]) > 0 \/ IndexOf(UpperHex, hex[i]) > 0
         \/ IndexOf(LowerHex, hex[i]) > 0

\* The two literals denote the same (r, g, b, a).
SameRGBA(c1, c2) ==
  LET p == hexToRGBA(c1)
      q == hexToRGBA(c2)
  IN p.r = q.r /\ p.g = q.g /\ p.b = q.b /\ p.a = q.a

\* The palette holds an entry with the (r, g, b, a) the literal denotes.
HoldsRGBA(palette, p) ==
  /\ p.ok
  /\ p.r # NaN /\ p.g # NaN /\ p.b # NaN /\ p.a # NaN
  /\ \E k \in 1..Len(palette) :
       /\ palette[k].r = p.r /\ palette[k].g = p.g
       /\ palette[k].b = p.b /\ palette[k].a = p.a

InPalette(palette, color) == HoldsRGBA(palette, hexToRGBA(color))

C7_FullPaletteRejects ==
  \A i \in ColorCalls :
    LET h == hist[i] IN
    (Len(h.before.color_palette) = 16 /\ ~InPalette(h.before.color_palette, h.arg))
    => /\ ~h.ok
       /\ h.error.name = "ValidationError"
       /\ (hexToRGBA(h.arg).ok =>
             h.error.message = "Color palette limit reached (max 16 colors)")
       /\ h.after.color_palette = h.before.color_palette
       /\ Len(h.after.color_palette) = 16

C7_Witness ==
  \E i \in ColorCalls :
    /\ Len(hist[i].before.color_palette) = 16
    /\ IsColorLiteral(hist[i].arg)
    /\ ~InPalette(hist[i].before.color_palette, hist[i].arg)
    /\ ~hist[i].ok
    /\ hist[i].after = hist[i].before

\* C9 (as claimed): for every input string on which a first call succeeds, an
\* immediately repeated call with the same string returns the same id and
\* leaves the palette unchanged.
C9_RepeatIsIdempotent ==
  \A i \in ColorPairs :
    (hist[i].arg = hist[i + 1].arg /\ hist[i].ok)
    => /\ hist[i + 1].ok
       /\ hist[i + 1].id = hist[i].id
       /\ hist[i + 1].after.color_palette = hist[i + 1].before.color_palette

\* Names equal up to letter case.
EqualUpToCase(n1, n2) == toLowerCase(n1) = toLowerCase(n2)

FamilyInPalette(palette, fontName) ==
  \E k \in 1..Len(palette) : EqualUpToCase(palette[k].font_name, fontName)

ResolveCalls == {i \in 1..Len(hist) : hist[i].fn = "resolveParameters"}

\* The decimal number a sequence of digit characters writes.
RECURSIVE DecimalValue(_)
DecimalValue(digits) ==
  IF digits = <<>> THEN 0
  ELSE 10 * DecimalValue(SubSeq(digits, 1, Len(digits) - 1))
         + (CHOOSE d \in 0..9 : Digits[d + 1] = digits[Len(digits)])

\* The string is "$output_of_step_" followed by one or more digits, nothing else.
IsStepReference(v) ==
  /\ v.kind = "string"
  /\ Len(v.chars) >= 2
  /\ v.chars[1] = "$output_of_step_"
  /\ \A i \in 2..Len(v.chars) : \E d \in 1..10 : Digits[d] = v.chars[i]

Recorded(outputs, n) == \E i \in 1..Len(outputs) : outputs[i].key = JNum(n)
RecordedValue(outputs, n) ==
  outputs[CHOOSE i \in 1..Len(outputs) : outputs[i].key = JNum(n)].value

\* C5: resolveParameters on the string "$output_of_step_N" returns exactly the
\* value recorded in operationOutputs for step N when one is recorded, and
\* fails with a ValidationError when none is.
C5_PlaceholderResolution ==
  \A i \in ResolveCalls :
    LET h == hist[i]
        n == DecimalValue(Tail(h.arg.chars))
    IN IsStepReference(h.arg)
       => IF Recorded(h.outputs, n)
          THEN h.ok /\ h.value = RecordedValue(h.outputs, n)
          ELSE ~h.ok /\ h.error.name = "ValidationError"

C5_Witness ==
  /\ Len(hist) = 2
  /\ hist[1].outputs = <<[key |-> JNum(2), value |-> ImageUrl]>>
  /\ hist[1].arg = Placeholder(<<"2">>)
  /\ hist[1].ok /\ hist[1].value = ImageUrl
  /\ hist[2].arg = Placeholder(<<"9">>)
  /\ ~hist[2].ok /\ hist[2].error.name = "ValidationError"

(***************************************************************************)
(* Claims about executeOperations, checked under Spec.                     *)
(***************************************************************************)
EventIndices(kind) == {i \in 1..Len(events) : events[i].ev = kind}

\* The throws of a step (list position > 0), as opposed to those after the loop.
StepThrows == {i \in EventIndices("throw") : events[i].pos > 0}

LastSent == sent[Len(sent)]

\* C1: once the step at list position k has failed (handler throw, failed
\* placeholder resolution or unknown operation name), every handler invocation
\* of the run lies before that failure and at a position not greater than k.
C1_NoHandlerAfterFailure ==
  \A i \in StepThrows :
    \A j \in EventIndices("invoke") : j < i /\ events[j].pos <= events[i].pos

C1_Witness ==
  /\ pc = "Failed"
  /\ Len(operations) = 3
  /\ idx = 2
  /\ \E i \in StepThrows :
       /\ events[i].pos = 2
       /\ \E j \in 1..(i - 1) : events[j] = Event("invoke", 2)

\* C2: when a step fails, the EXECUTION_FAILED message carries the failing
\* step's index (its list position, or its step number) in step, the failing
\* operation's name in operation, and the error message.
C2_FailureNamesStepAndOperation ==
  \A i \in StepThrows :
    pc = "Failed"
    => LET k == events[i].pos IN
       /\ LastSent.type = "EXECUTION_FAILED"
       /\ LastSent.data.step \in {k, operations[k].step.num}
       /\ LastSent.data.operation = JStr(<<operations[k].operation>>)
       /\ LastSent.data.error = error.message

\* C3: a run is Pending, then Running(step i), then Completed or Failed: at
\* most one terminal message is sent, EXECUTION_COMPLETE or EXECUTION_FAILED,
\* and it is the last thing of the run: no progress message and no handler
\* invocation follows it.
C3_OneTerminalMessage ==
  LET terminals == {i \in 1..Len(sent) :
                      sent[i].type \in {"EXECUTION_COMPLETE", "EXECUTION_FAILED"}}
      ends == {i \in 1..Len(events) : events[i].ev \in {"complete", "failed"}}
  IN
  /\ Cardinality(terminals) <= 1
  /\ \A i \in terminals : i = Len(sent)
  /\ Cardinality(ends) = Cardinality(terminals)
  /\ \A i \in ends : i = Len(events)
  /\ pc = "Completed" <=> (sent # <<>> /\ LastSent.type = "EXECUTION_COMPLETE")
  /\ pc = "Failed" <=> (sent # <<>> /\ LastSent.type = "EXECUTION_FAILED")
  /\ pc = "Pending" => sent = <<>> /\ events = <<>>
  /\ pc \in {"Handler", "Awaiting"}
       => /\ idx \in 1..Len(operations)
          /\ context.currentStep = operations[idx].step
          /\ LastSent.type = "EXECUTION_PROGRESS"
          /\ LastSent.data.currentStep = operations[idx].step

C3_Witness ==
  /\ pc = "Completed"
  /\ Len(operations) = 3
  /\ Len(sent) = 4
  /\ \A i \in 1..3 : sent[i].type = "EXECUTION_PROGRESS"
  /\ Cardinality(EventIndices("invoke")) = 3
  /\ events[Len(events)].ev = "complete"

IsInvoke(e) == e.ev = "invoke"

\* C4: the handlers are invoked in list order, one at a time: the handler at
\* position i+1 is invoked only after the handler at position i has returned
\* and its output, if defined, has been stored in operationOutputs under the
\* step number of operation i; while a handler awaits its external call no
\* other handler is invoked.
C4_StepsInOrder ==
  LET invokes == SelectSeq(events, IsInvoke) IN
  /\ \A k \in 1..Len(invokes) : invokes[k].pos = k
  /\ \A j \in EventIndices("invoke") :
       events[j].pos > 1
       => \E i \in 1..(j - 1) :
            /\ events[i].ev = "return"
            /\ events[i].pos = events[j].pos - 1
            /\ events[i].value # JUndefined
                 => /\ i + 1 < j
                    /\ events[i + 1] =
                         EventWith("record", events[i].pos,
                                   operations[events[i].pos].step)
  /\ \A i \in EventIndices("return") :
       events[i].value # JUndefined
       => /\ MapHas(context.operationOutputs, operations[events[i].pos].step)
          /\ MapGet(context.operationOutputs, operations[events[i].pos].step)
               = events[i].value
  /\ pc = "Awaiting" => events[Len(events)] = Event("invoke", idx)

C4_Witness ==
  /\ Len(operations) = 3
  /\ operations[1].operation = "generate_image"
  /\ operations[1].step = JNum(1)
  /\ operations[2].operation = "add_image_layer"
  /\ MapHas(context.operationOutputs, JNum(1))
  /\ MapGet(context.operationOutputs, JNum(1)) = ReplicateUrl
  /\ \E j \in 1..Len(events) : events[j] = Event("invoke", 2)
  /\ \E j \in 1..Len(events) : events[j] = Event("invoke", 3)

\* The colours and the font an operation asks the theme for.
AskedColors(op) ==
  IF op.operation = "create_canvas"
  THEN {Get(op.parameters, "background_color")} \ {JUndefined}
  ELSE IF op.operation = "add_text_layer"
  THEN {GetOr(op.parameters, "color", Black)}
         \cup (IF Truthy(GetOr(op.parameters, "shadow_enabled", JBool(FALSE)))
               THEN {GetOr(op.parameters, "shadow_color", Black)} ELSE {})
  ELSE IF op.operation = "edit_text_layer"
  THEN {Get(op.parameters, "color")} \ {JUndefined}
  ELSE {}

AskedFonts(op) ==
  IF op.operation = "add_text_layer" THEN {FontValue(op.parameters)}
  ELSE IF op.operation = "edit_text_layer"
  THEN {Get(op.parameters, "font_name")} \ {JUndefined}
  ELSE {}

\* C8: in every state of a run the theme holds at most 16 colours and at most
\* 8 fonts; every colour and font a returned step asked for is in the palette
\* (nothing is dropped or truncated), and a step that needs one more than the
\* bound fails with the palette at the bound.
C8_PaletteBounds ==
  /\ Len(context.theme.color_palette) <= 16
  /\ Len(context.theme.font_palette) <= 8
  /\ \A i \in EventIndices("return") :
       LET op == operations[events[i].pos] IN
       /\ \A c \in AskedColors(op) : InPalette(context.theme.color_palette, c.chars)
       /\ \A f \in AskedFonts(op) : FamilyInPalette(context.theme.font_palette, f.chars)
  /\ \A i \in EventIndices("invoke") :
       LET op == operations[events[i].pos] IN
       (\E c \in AskedColors(op) : ~InPalette(context.theme.color_palette, c.chars))
       => /\ pc = "Failed" /\ idx = events[i].pos
          /\ error.name \in {"ValidationError", "TypeError"}

C8_Witness ==
  /\ pc = "Failed"
  /\ Len(context.theme.color_palette) = 16
  /\ error = ValidationError("Color palette limit reached (max 16 colors)")
  /\ LastSent.type = "EXECUTION_FAILED"
  /\ \E i \in EventIndices("return") : events[i].pos = 8

(***************************************************************************)
(* C11.  A run that reports completion has a canvas whose width and height *)
(* are both positive numbers.                                              *)
(***************************************************************************)
IsPositive(v) == v.kind = "number" /\ "num" \in DOMAIN v /\ v.num > 0

C11_CompleteOnlyWithPositiveCanvas ==
  pc = "Completed" =>
    /\ IsPositive(context.template.canvas.width)
    /\ IsPositive(context.template.canvas.height)

(***************************************************************************)
(* Claims about the element tree.                                          *)
(***************************************************************************)
RECURSIVE AllElements(_)
\* Every element of the tree, depth-first, at any depth.
AllElements(elements) ==
  IF elements = <<>> THEN <<>>
  ELSE <<Head(elements)>>
         \o (IF "children" \in DOMAIN Head(elements)
             THEN AllElements(Head(elements).children) ELSE <<>>)
         \o AllElements(Tail(elements))

Tree == AllElements(context.template.elements)
Roots == context.template.elements
DataItemIds == {context.data.data_items[i].id : i \in 1..Len(context.data.data_items)}

\* The last step has ended with a result, or the run has reported completion.
AfterSuccessfulStep ==
  \/ pc = "Loop"
  \/ pc \in {"Save", "Render", "Completed"}

\* The operations that have returned a result so far.
ReturnedOperations ==
  {operations[events[i].pos].operation : i \in EventIndices("return")}

\* A data_item element below a container.
NestedDataItem ==
  \E i \in 1..Len(Roots) :
    /\ "children" \in DOMAIN Roots[i]
    /\ \E j \in 1..Len(AllElements(Roots[i].children)) :
         AllElements(Roots[i].children)[j].element_type = "data_item"

(***************************************************************************)
(* C12.  After every step that has ended with a result, and in every run   *)
(* that reports completion, each data_item element of the tree, at any     *)
(* depth, carries the id of a data item held in data.data_items.           *)
(***************************************************************************)
C12_DataItemElementsResolve ==
  AfterSuccessfulStep =>
    \A i \in 1..Len(Tree) :
      Tree[i].element_type = "data_item" =>
        /\ "data_item_id" \in DOMAIN Tree[i]
        /\ Tree[i].data_item_id \in DataItemIds

\* A run has completed after a delete_layer, with a data_item element left
\* inside a container.
C12_Witness ==
  /\ pc = "Completed"
  /\ "delete_layer" \in ReturnedOperations
  /\ NestedDataItem

(***************************************************************************)
(* C13.  When a run reports completion, every color, fill,                 *)
(* background_color and border_color in the style of an element of the     *)
(* tree is the id of an entry of color_palette, and every font is the      *)
(* font_id of an entry of font_palette.                                    *)
(***************************************************************************)
ColorProperties == {"color", "fill", "background_color", "border_color"}

ColorIds ==
  {JStr(<<context.theme.color_palette[i].id>>) :
     i \in 1..Len(context.theme.color_palette)}
FontIds ==
  {JStr(<<context.theme.font_palette[i].font_id>>) :
     i \in 1..Len(context.theme.font_palette)}

\* The values the styles of the tree hold under one of the keys.
StyleValuesOf(element, keys) ==
  {StyleOf(element)[j].value :
     j \in {k \in 1..Len(StyleOf(element)) : StyleOf(element)[k].key \in keys}}

StyleValues(keys) == UNION {StyleValuesOf(Tree[i], keys) : i \in 1..Len(Tree)}

C13_StyleReferencesResolve ==
  pc = "Completed" =>
    /\ StyleValues(ColorProperties) \subseteq ColorIds
    /\ StyleValues({"font"}) \subseteq FontIds

\* A completed run with a background, a text layer and an edit of its colour and
\* font.
C13_Witness ==
  /\ pc = "Completed"
  /\ {"create_canvas", "add_text_layer", "edit_text_layer"} \subseteq ReturnedOperations
  /\ Cardinality(StyleValues(ColorProperties)) >= 2
  /\ StyleValues({"font"}) # {}

(***************************************************************************)
(* C14.  A step that fails leaves data.data_items, the template tree, the  *)
(* theme palettes and layerMap as they were when the step began.           *)
(***************************************************************************)
StepFails == pc \in {"Handler", "Awaiting"} /\ pc' = "Failed"

C14_FailedStepChangesNothing ==
  [][StepFails =>
       /\ context'.data.data_items = context.data.data_items
       /\ context'.template.elements = context.template.elements
       /\ context'.theme = context.theme
       /\ context'.layerMap = context.layerMap]_vars

(***************************************************************************)
(* C15.  A successful addElementToContainer moves: afterwards the element  *)
(* is the last child of the destination container, its id occurs once in   *)
(* the tree, and the tree holds the same elements as before.  In every     *)
(* reachable state no element occurs twice in the tree.                    *)
(***************************************************************************)
ElementIds(elements) ==
  [i \in 1..Len(AllElements(elements)) |-> AllElements(elements)[i].element_id]

Occurrences(ids, id) == Cardinality({i \in 1..Len(ids) : ids[i] = id})

NoElementTwice ==
  \A i, j \in 1..Len(Tree) : i # j => Tree[i].element_id # Tree[j].element_id

\* add_layer_to_container returns a result in this step.
MoveSucceeds ==
  /\ pc = "Handler"
  /\ operations[idx].operation = "add_layer_to_container"
  /\ pc' = "Loop"

MovedId == MapGet(context.layerMap, Get(resolvedParams, "layer_name"))
DestinationId == MapGet(context.layerMap, Get(resolvedParams, "container_name"))

IsMove(before, after, elementId, containerId) ==
  LET container == findElement(after, containerId) IN
  /\ container # JNull
  /\ "children" \in DOMAIN container
  /\ container.children # <<>>
  /\ container.children[Len(container.children)] = findElement(before, elementId)
  /\ Occurrences(ElementIds(after), elementId) = 1
  /\ Len(ElementIds(after)) = Len(ElementIds(before))
  /\ {ElementIds(after)[i] : i \in 1..Len(ElementIds(after))}
       = {ElementIds(before)[i] : i \in 1..Len(ElementIds(before))}

C15_AddToContainerMoves ==
  /\ [][MoveSucceeds =>
          IsMove(context.template.elements, context'.template.elements,
                 MovedId, DestinationId)]_vars
  /\ []NoElementTwice

\* A layer has just been moved out of one container into a container nested in
\* it.
C15_Witness ==
  /\ pc = "Loop"
  /\ idx > 0
  /\ operations[idx].operation = "add_layer_to_container"
  /\ \E i \in 1..Len(Tree) :
       /\ Tree[i].element_type = "container"
       /\ \A r \in 1..Len(Roots) : Roots[r].element_id # Tree[i].element_id
       /\ Tree[i].children # <<>>
       /\ Tree[i].children[Len(Tree[i].children)].element_type = "data_item"
       /\ Tree[i].children[Len(Tree[i].children)].element_id
            = MapGet(context.layerMap, Get(resolvedParams, "layer_name"))

(***************************************************************************)
(* C16.  In every reachable state the template is a proper forest: no      *)
(* element lies below itself, and only container elements have children.   *)
(***************************************************************************)
ChildrenOf(element) ==
  IF "children" \in DOMAIN element THEN element.children ELSE <<>>

Descendants(element) == ElementIds(ChildrenOf(element))

C16_ProperForest ==
  \A i \in 1..Len(Tree) :
    /\ "children" \in DOMAIN Tree[i] => Tree[i].element_type = "container"
    /\ Occurrences(Descendants(Tree[i]), Tree[i].element_id) = 0

\* A container moved into a container, with a layer moved into the inner one.
C16_Witness ==
  \E r \in 1..Len(Roots) :
    /\ Roots[r].element_type = "container"
    /\ \E c \in 1..Len(ChildrenOf(Roots[r])) :
         /\ Roots[r].children[c].element_type = "container"
         /\ ChildrenOf(Roots[r].children[c]) # <<>>

(***************************************************************************)
(* C17.  A move of a container into itself or into one of its descendants  *)
(* fails and leaves the template tree as it was before the call.           *)
(***************************************************************************)
\* add_layer_to_container is about to move a container of the tree into itself
\* or below itself.
MoveIntoOwnSubtree ==
  /\ pc = "Handler"
  /\ operations[idx].operation = "add_layer_to_container"
  /\ MapHas(context.layerMap, Get(resolvedParams, "layer_name"))
  /\ MapHas(context.layerMap, Get(resolvedParams, "container_name"))
  /\ findElement(Roots, MovedId) # JNull
  /\ findElement(Roots, MovedId).element_type = "container"
  /\ \/ DestinationId = MovedId
     \/ Occurrences(Descendants(findElement(Roots, MovedId)), DestinationId) > 0

C17_CyclicMoveRejectedUnchanged ==
  [][MoveIntoOwnSubtree =>
       /\ pc' = "Failed"
       /\ context'.template.elements = context.template.elements]_vars

(***************************************************************************)
(* C18.  After any sequence of element-creating operations no two elements *)
(* of the tree share an element_id and no two data items share an id.      *)
(***************************************************************************)
DataItems == context.data.data_items

C18_IdsUnique ==
  /\ \A i, j \in 1..Len(Tree) : i # j => Tree[i].element_id # Tree[j].element_id
  /\ \A i, j \in 1..Len(DataItems) : i # j => DataItems[i].id # DataItems[j].id

(***************************************************************************)
(* C19.  calculateAnchorPosition gives, for each of the nine anchors,      *)
(* x = 0 (left), W - w (right) or (W - w)/2 (centered), y by the same rule *)
(* with H and h (top, bottom, centered), each plus its offset.  With a box *)
(* of 1000x1000 and an element of 100x50, center gives (450, 475) and      *)
(* bottom-right with offsets (10, -10) gives (910, 940).  Coordinates are  *)
(* compared doubled.                                                       *)
(***************************************************************************)
AnchorCalls == {i \in 1..Len(hist) : hist[i].fn = "calculateAnchorPosition"}

\* Twice the base coordinate for a part of the anchor name.
TwiceBase(part, box, size) ==
  IF part \in {Chars_left, Chars_top} THEN 0
  ELSE IF part \in {Chars_right, Chars_bottom} THEN 2 * (box - size)
  ELSE box - size

FollowsRule(c, v, h) ==
  /\ c.result.ok
  /\ c.result.x2 = TwiceBase(h, c.canvasWidth, c.elementWidth) + 2 * c.offsetX
  /\ c.result.y2 = TwiceBase(v, c.canvasHeight, c.elementHeight) + 2 * c.offsetY

ExampleBox(c) ==
  /\ c.canvasWidth = 1000 /\ c.canvasHeight = 1000
  /\ c.elementWidth = 100 /\ c.elementHeight = 50

C19_AnchorPositions ==
  \A i \in AnchorCalls :
    /\ \A v \in VerticalParts, h \in HorizontalParts :
         hist[i].anchor = AnchorName(v, h) => FollowsRule(hist[i], v, h)
    /\ ( /\ hist[i].anchor = Chars_center
         /\ ExampleBox(hist[i])
         /\ hist[i].offsetX = 0 /\ hist[i].offsetY = 0 )
       => hist[i].result.x2 = 2 * 450 /\ hist[i].result.y2 = 2 * 475
    /\ ( /\ hist[i].anchor = Dash(Chars_bottom, Chars_right)
         /\ ExampleBox(hist[i])
         /\ hist[i].offsetX = 10 /\ hist[i].offsetY = -10 )
       => hist[i].result.x2 = 2 * 910 /\ hist[i].result.y2 = 2 * 940

\* The call bottom-right, 1000x1000, 100x50, offsets (10, -10) has been made.
C19_Witness ==
  \E i \in AnchorCalls :
    /\ hist[i].anchor = Dash(Chars_bottom, Chars_right)
    /\ ExampleBox(hist[i])
    /\ hist[i].offsetX = 10 /\ hist[i].offsetY = -10
    /\ hist[i].result.x2 = 1820 /\ hist[i].result.y2 = 1880

(***************************************************************************)
(* C20.  create_canvas{1240, 1748, "#FFFF00"} followed by                  *)
(* add_text_layer{title, Hello, anchor center} on a fresh context.         *)
(***************************************************************************)

Scenario == <<OperationPool[1], OperationPool[3]>>

\* Both steps of the scenario have returned.
ScenarioDone ==
  /\ Len(operations) = 2
  /\ \A i \in 1..2 :
       /\ operations[i].operation = Scenario[i].operation
       /\ operations[i].parameters = Scenario[i].parameters
  /\ idx = 2
  /\ AfterSuccessfulStep

StyleText(element, key) ==
  IF MapHas(StyleOf(element), key) /\ MapGet(StyleOf(element), key).kind = "string"
  THEN Text(MapGet(StyleOf(element), key).chars)
  ELSE "(none)"

IsYellow(c) == c.r = 255 /\ c.g = 255 /\ c.b = 0
IsBlack(c) == c.r = 0 /\ c.g = 0 /\ c.b = 0

\* Two roots: a full-size rectangle with the yellow palette colour as its
\* background, then a data_item text element at left 50%, top 50%.
ScenarioTemplate ==
  /\ Len(Roots) = 2
  /\ Roots[1].element_type = "shape"
  /\ Roots[1].shape_type = "rectangle"
  /\ StyleText(Roots[1], "width") = "100%"
  /\ StyleText(Roots[1], "height") = "100%"
  /\ \E k \in 1..Len(context.theme.color_palette) :
       /\ IsYellow(context.theme.color_palette[k])
       /\ StyleText(Roots[1], "background_color") = context.theme.color_palette[k].id
  /\ Roots[2].element_type = "data_item"
  /\ \E d \in 1..Len(DataItems) :
       /\ DataItems[d].id = Roots[2].data_item_id
       /\ DataItems[d].type = "text"
       /\ DataItems[d].content = JStr(<<"Hello">>)
  /\ StyleText(Roots[2], "left") = "50%"
  /\ StyleText(Roots[2], "top") = "50%"

\* As stated: one colour in the theme, transform translate(-50%, -50%).
C20_ScenarioAsStated ==
  ScenarioDone =>
    /\ ScenarioTemplate
    /\ Len(context.theme.color_palette) = 1
    /\ StyleText(Roots[2], "transform") = "translate(-50%, -50%)"

\* C20, amended: the theme holds two colours, the yellow of the canvas and the
\* default text colour black, and one font; the transform is
\* translate(calc(-50% + 0px), calc(-50% + 0px)).
C20_ScenarioAsBuilt ==
  ScenarioDone =>
    /\ ScenarioTemplate
    /\ Len(context.theme.color_palette) = 2
    /\ IsYellow(context.theme.color_palette[1])
    /\ IsBlack(context.theme.color_palette[2])
    /\ StyleText(Roots[2], "color") = context.theme.color_palette[2].id
    /\ Len(context.theme.font_palette) = 1
    /\ StyleText(Roots[2], "transform")
         = "translate(calc(-50% + 0px), calc(-50% + 0px))"

\* The scenario has run to completion.
C20_Witness == ScenarioDone /\ pc = "Completed" /\ Len(Roots) = 2

(***************************************************************************)
(* C26.  resize_image, crop_image, remove_background, upscale and segment  *)
(* fail whatever their parameters and the context, and leave the context   *)
(* as it was; a run with one of them in its list never reports completion. *)
(***************************************************************************)
PlaceholderCalled == pc = "Handler" /\ operations[idx].operation \in NotImplemented

C26_PlaceholdersAlwaysFail ==
  /\ [][PlaceholderCalled =>
          /\ pc' = "Failed"
          /\ context' = context
          /\ error' = ValidationError(operations[idx].operation
                                       \o " operation is not implemented yet")]_vars
  /\ [](pc = "Completed" =>
          \A i \in 1..Len(operations) : operations[i].operation \notin NotImplemented)

\* A placeholder with parameters has failed on a context that holds a layer.
C26_Witness ==
  /\ pc = "Failed"
  /\ idx > 1
  /\ operations[idx].operation \in NotImplemented
  /\ operations[idx].parameters # JObj(<<>>)
  /\ Len(Roots) = 1
  /\ LastSent.type = "EXECUTION_FAILED"

(***************************************************************************)
(* C27.  add_image_layer with a layer_name that layerMap already binds     *)
(* fails; after successful steps every layer and container of the tree is  *)
(* still bound to a name.                                                  *)
(***************************************************************************)
ImageLayerNameInUse ==
  /\ pc = "Handler"
  /\ operations[idx].operation = "add_image_layer"
  /\ MapHas(context.layerMap, Get(resolvedParams, "layer_name"))

BoundIds == {context.layerMap[i].value : i \in 1..Len(context.layerMap)}

C27_ImageLayerNameMustBeUnused ==
  /\ [][ImageLayerNameInUse => pc' = "Failed"]_vars
  /\ [](AfterSuccessfulStep =>
          \A i \in 1..Len(Tree) :
            Tree[i].element_type \in {"data_item", "container"}
              => Tree[i].element_id \in BoundIds)

(***************************************************************************)
(* C28.  After a successful create_canvas with a background colour the new *)
(* full-size rectangle is the first element of template.elements, whatever *)
(* earlier steps have added.                                               *)
(***************************************************************************)
BackgroundCreated ==
  /\ pc = "Handler"
  /\ operations[idx].operation = "create_canvas"
  /\ Truthy(Get(resolvedParams, "background_color"))
  /\ pc' = "Loop"

IsBackground(element) ==
  /\ element.element_type = "shape"
  /\ "shape_type" \in DOMAIN element
  /\ element.shape_type = "rectangle"
  /\ StyleText(element, "width") = "100%"
  /\ StyleText(element, "height") = "100%"

C28_BackgroundIsFirstElement ==
  [][BackgroundCreated =>
       /\ Len(context'.template.elements) = Len(Roots) + 1
       /\ IsBackground(context'.template.elements[1])
       /\ Occurrences(ElementIds(Roots), context'.template.elements[1].element_id) = 0]_vars

(***************************************************************************)
(* C29.  After a successful delete_layer of layer L bound to element e: e  *)
(* is out of the tree, the data item of a data_item element e is out of    *)
(* data.data_items, L is out of layerMap, and every other element, data    *)
(* item and layer mapping is as before.                                    *)
(***************************************************************************)
DeleteSucceeds ==
  /\ pc = "Handler"
  /\ operations[idx].operation = "delete_layer"
  /\ pc' = "Loop"

\* An element without its children.
Own(element) == [f \in DOMAIN element \ {"children"} |-> element[f]]

OthersOf(elements, id) ==
  {Own(AllElements(elements)[i]) :
     i \in {k \in 1..Len(AllElements(elements)) :
              AllElements(elements)[k].element_id # id}}

ItemsBut(items, element) ==
  IF element.element_type = "data_item" /\ "data_item_id" \in DOMAIN element
  THEN SelectSeq(items, LAMBDA item : item.id # element.data_item_id)
  ELSE items

IsDeletion(before, after, layer) ==
  LET id == MapGet(before.layerMap, layer)
      e == findElement(before.template.elements, id)
  IN
  /\ Occurrences(ElementIds(after.template.elements), id) = 0
  /\ after.data.data_items = ItemsBut(before.data.data_items, e)
  /\ after.layerMap = MapDelete(before.layerMap, layer)
  /\ OthersOf(after.template.elements, id) = OthersOf(before.template.elements, id)

C29_DeleteRemovesOnlyTheLayer ==
  [][DeleteSucceeds =>
       IsDeletion(context, context', Get(resolvedParams, "layer_name"))]_vars

(***************************************************************************)
(* C30.  The order of a step.                                              *)
(***************************************************************************)
\* The step at idx has failed before its handler was invoked.
FailedBeforeHandler ==
  /\ pc = "Failed"
  /\ idx > 0
  /\ \E i \in StepThrows : events[i].pos = idx
  /\ \A i \in EventIndices("invoke") : events[i].pos # idx

Unregistered(op) == op.operation \notin OPERATION_HANDLERS
Unresolvable(op) == ~resolveParameters(op.parameters, context.operationOutputs).ok
PlaceholderError(op) == resolveParameters(op.parameters, context.operationOutputs).error

\* The last two messages are the progress of the step at idx and the failure.
ProgressThenFailure ==
  /\ Len(sent) >= 2
  /\ sent[Len(sent) - 1] = ProgressMessage(operations[idx], context.totalSteps)
  /\ LastSent.type = "EXECUTION_FAILED"

MaxLookups == 3

LookupNames == { <<"L", "a", "t", "o">>, <<"l", "a", "t", "o">>, <<"F", "1">> }

InitLookups ==
  /\ IdlePipeline
  /\ context = NewContext(<<>>)
  /\ idSeq = 0
  /\ googleFontCache = <<>>

\* isGoogleFont up to the await: the cached answer, or the request is sent.
LookupBegins(fontName) ==
  /\ Len(hist) < MaxLookups
  /\ LET key == toLowerCase(fontName) IN
       hist' = Append(hist,
                 IF MapHas(googleFontCache, key)
                 THEN [fn |-> "isGoogleFont", key |-> key, at |-> "returned",
                       requested |-> FALSE,
                       available |-> MapGet(googleFontCache, key)]
                 ELSE [fn |-> "isGoogleFont", key |-> key, at |-> "fetch",
                       requested |-> TRUE, available |-> FALSE])
  /\ UNCHANGED <<operations, pc, idx, context, resolvedParams, error, sent, events,
                 idSeq, googleFontCache>>

\* isGoogleFont after the await: response.ok is cached and returned; a
\* rejected fetch caches and returns false.
LookupResumes(i, fetch) ==
  /\ i \in 1..Len(hist)
  /\ hist[i].at = "fetch"
  /\ LET available == (fetch = "ok") IN
       /\ googleFontCache' = MapSet(googleFontCache, hist[i].key, available)
       /\ hist' = [hist EXCEPT ![i].at = "returned", ![i].available = available]
  /\ UNCHANGED <<operations, pc, idx, context, resolvedParams, error, sent, events,
                 idSeq>>

NextLookups ==
  \/ \E fontName \in LookupNames : LookupBegins(fontName)
  \/ \E i \in 1..MaxLookups, fetch \in FetchOutcomes : LookupResumes(i, fetch)

SpecLookups == InitLookups /\ [][NextLookups]_vars

ReturnedLookups == {i \in 1..Len(hist) : hist[i].at = "returned"}

LookupsAgree ==
  \A i, j \in ReturnedLookups :
    hist[i].key = hist[j].key => hist[i].available = hist[j].available

CacheEntriesKept ==
  \A i \in 1..Len(googleFontCache) :
    /\ MapHas(googleFontCache', googleFontCache[i].key)
    /\ MapGet(googleFontCache', googleFontCache[i].key) = googleFontCache[i].value

\* C24: for every interleaving of concurrent isGoogleFont lookups of one
\* family name, whatever each request answers, all lookups return the same
\* boolean, and a cache entry, once written, never changes its value.
C24_LookupsAgreeAndCacheIsStable == []LookupsAgree /\ [][CacheEntriesKept]_vars

RenderThrew ==
  /\ pc \in {"Completed", "Failed"}
  /\ \E i \in EventIndices("render") : i < Len(events) /\ events[i + 1].ev = "throw"

\* C22: when renderScene throws in a pipeline run whose steps, validation
\* and save all succeeded, the run does not send EXECUTION_FAILED: it completes
\* (without a preview).
C22_RenderFailureDoesNotFailRun ==
  RenderThrew =>
    /\ \A i \in 1..Len(sent) : sent[i].type # "EXECUTION_FAILED"
    /\ LastSent.type = "EXECUTION_COMPLETE"

(***************************************************************************)
(* One WebSocket session of the server (SpecServer).  context is           *)
(* clientScenes.get(ws): undefined, or the components {data, template,     *)
(* theme}, each possibly null.  hist is the file system below the working  *)
(* directory: a Map from path to the document JSON.parse reads back.       *)
(* events logs the handled messages and the saves, with the metadata       *)
(* document involved, the scene in memory and the result of tryRenderScene.*)
(***************************************************************************)
MaxMessages == 4

RECURSIVE JsonValue(_)
\* JSON.parse(JSON.stringify(v)) below the top level: NaN becomes null, an
\* undefined property is dropped, an undefined array item becomes null.
JsonValue(v) ==
  IF v.kind = "number" /\ "nan" \in DOMAIN v THEN JNull
  ELSE IF v.kind = "undefined" THEN JNull
  ELSE IF v.kind = "array" THEN JArr([i \in 1..Len(v.items) |-> JsonValue(v.items[i])])
  ELSE IF v.kind = "object"
  THEN JObj([i \in 1..Len(SelectSeq(v.entries, LAMBDA e : e.value # JUndefined)) |->
               [key |-> SelectSeq(v.entries, LAMBDA e : e.value # JUndefined)[i].key,
                value |-> JsonValue(
                  SelectSeq(v.entries, LAMBDA e : e.value # JUndefined)[i].value)]])
  ELSE v

\* The round trip of a record whose fields in keys hold JavaScript values.
JsonFields(rec, keys) ==
  [f \in {g \in DOMAIN rec : g \notin keys \/ rec[g] # JUndefined} |->
     IF f \in keys THEN JsonValue(rec[f]) ELSE rec[f]]

RECURSIVE JsonElements(_)
JsonElements(elements) ==
  [i \in 1..Len(elements) |->
     [f \in DOMAIN elements[i] |->
        IF f = "style" THEN JsonValue(JObj(elements[i].style)).entries
        ELSE IF f = "children" THEN JsonElements(elements[i].children)
        ELSE elements[i][f]]]

\* JSON.parse(JSON.stringify(document, null, 2)) of a component document.
JsonDocument(doc) ==
  IF doc = JNull THEN JNull
  ELSE [f \in DOMAIN doc |->
          IF f = "data_items"
          THEN [i \in 1..Len(doc.data_items) |->
                  JsonFields(doc.data_items[i], {"display_name", "content", "image_url"})]
          ELSE IF f = "canvas" THEN JsonFields(doc.canvas, {"width", "height"})
          ELSE IF f = "elements" THEN JsonElements(doc.elements)
          ELSE doc[f]]

\* Bun.write(path, JSON.stringify(document, null, 2))
WriteJson(fs, path, doc) == MapSet(fs, path, JsonDocument(doc))

loadJsonFile(fs, filename) == IF MapHas(fs, filename) THEN MapGet(fs, filename) ELSE JNull

\* saveSceneToFile(data, template, theme, basePath): [files, metadata].
saveSceneToFile(fs, data, template, theme, basePath) ==
  LET scene == [id |-> data.scene_id, name |-> data.scene_id,
                data |-> basePath \o "-data.json",
                template |-> basePath \o "-template.json",
                theme |-> basePath \o "-theme.json"]
  IN
  [fs |-> WriteJson(WriteJson(WriteJson(WriteJson(fs,
             basePath \o "-scene.json", scene),
             scene.data, data), scene.template, template), scene.theme, theme),
   metadata |-> scene]

\* saveSceneToDirectory(context), the paths relative to process.cwd().
saveSceneToDirectory(fs, ctx) ==
  LET sceneDir == "scenes/" \o ctx.sceneId
      sceneMetadata == [id |-> ctx.sceneId, name |-> ctx.sceneName,
                        data |-> "data.json", template |-> "template.json",
                        theme |-> "theme.json"]
  IN
  [fs |-> WriteJson(WriteJson(WriteJson(WriteJson(fs,
             sceneDir \o "/data.json", ctx.data),
             sceneDir \o "/template.json", ctx.template),
             sceneDir \o "/theme.json", ctx.theme),
             sceneDir \o "/scene.json", sceneMetadata),
   metadata |-> sceneMetadata]

createEmptyScene(sceneId) ==
  [data |-> [scene_id |-> sceneId, data_items |-> <<>>],
   template |-> [template_id |-> sceneId \o "_template",
                 template_name |-> sceneId \o " Template",
                 canvas |-> [width |-> JNum(800), height |-> JNum(600)],
                 elements |-> <<>>],
   theme |-> [theme_id |-> sceneId \o "_theme", theme_name |-> sceneId \o " Theme",
              color_palette |->
                <<[id |-> "primary", name |-> "Primary", r |-> 0, g |-> 0, b |-> 0, a |-> 1],
                  [id |-> "background", name |-> "Background",
                   r |-> 255, g |-> 255, b |-> 255, a |-> 1]>>,
              font_palette |->
                <<[font_id |-> "default", font_name |-> <<"A", "r", "i", "a", "l">>,
                   font_url |-> <<>>]>>]]

\* tryRenderScene(ws): the result {html, css}, or null.
tryRenderScene(components) ==
  IF components = JUndefined THEN JNull
  ELSE IF components.data = JNull \/ components.template = JNull \/ components.theme = JNull
  THEN JNull
  ELSE IF renderScene(components).threw THEN JNull
  ELSE [html |-> renderScene(components).html, css |-> renderScene(components).css]

\* const result = tryRenderScene(ws); if (result) ws.send(RENDER_RESULT)
RenderMessages(result) ==
  IF result = JNull THEN <<>> ELSE <<[type |-> "RENDER_RESULT", data |-> result]>>

\* The documents a client sends with COMPONENT_UPDATED.
ItemsDocument ==
  [scene_id |-> "s1",
   data_items |-> <<[id |-> "d1", type |-> "text", display_name |-> JStr(<<"title">>),
                     content |-> JStr(<<"Hello">>)],
                    [id |-> "d2", type |-> "image", display_name |-> JStr(<<"photo">>),
                     image_url |-> JStr(<<"photo.png">>)]>>]

DataItemElement(elementId, dataItemId) ==
  [element_id |-> elementId, element_type |-> "data_item", data_item_id |-> dataItemId,
   style |-> <<[key |-> "left", value |-> JStr(<<"10", "px">>)]>>]

\* Elements e2 and e5 name data items that no document holds.
LayoutDocument ==
  [template_id |-> "s1_template", template_name |-> "s1 Template",
   canvas |-> [width |-> JNum(640), height |-> JNum(480)],
   elements |->
     << DataItemElement("e1", "d1"),
        DataItemElement("e2", "gone"),
        [element_id |-> "e3", element_type |-> "shape", shape_type |-> "rectangle",
         style |-> <<[key |-> "fill", value |-> JStr(<<"primary">>)]>>],
        [element_id |-> "e4", element_type |-> "container",
         style |-> <<[key |-> "display", value |-> JStr(<<"flex">>)]>>,
         children |-> <<DataItemElement("e5", "lost"), DataItemElement("e6", "d2")>>],
        DataItemElement("e7", "d1") >>]

Styled(elementId, style) ==
  [element_id |-> elementId, element_type |-> "shape", shape_type |-> "rectangle",
   style |-> style]

Percent(key, n) == [key |-> key, value |-> JStr(<<n, "%">>)]

\* Shapes that are full-size or not, with and without a position of their own.
LayersDocument ==
  [LayoutDocument EXCEPT !.elements =
     << Styled("bg", <<Percent("width", "100"), Percent("height", "100")>>),
        Styled("cover", <<[key |-> "position", value |-> JStr(<<"fixed">>)],
                          Percent("width", "100"), Percent("height", "100")>>),
        Styled("band", <<Percent("width", "100"), Percent("height", "50")>>),
        Styled("wide", <<Percent("width", "100")>>),
        Styled("number", <<[key |-> "width", value |-> JNum(100)],
                           [key |-> "height", value |-> JNum(100)]>>),
        Styled("pinned", <<[key |-> "position", value |-> JStr(<<"absolute">>)],
                           [key |-> "left", value |-> JStr(<<"5", "px">>)]>>),
        Styled("plain", <<>>) >>]

\* A container a with the child b, and a root whose id is a-b.
HyphenDocument ==
  [LayoutDocument EXCEPT !.elements =
     << [element_id |-> "a", element_type |-> "container",
         style |-> <<[key |-> "display", value |-> JStr(<<"flex">>)]>>,
         children |-> <<Styled("b", <<[key |-> "fill", value |-> JStr(<<"primary">>)]>>)>>],
        Styled("a-b", <<[key |-> "fill", value |-> JStr(<<"background">>)]>>) >>]

\* A template whose element carries a style value ToString throws on.
UnprintableDocument ==
  [LayoutDocument EXCEPT !.elements =
     <<[element_id |-> "e1", element_type |-> "shape", shape_type |-> "rectangle",
        style |-> <<[key |-> "width", value |-> Unprintable]>>]>>]

Updates ==
  { [type |-> "data", data |-> ItemsDocument],
    [type |-> "data", data |-> JNull],
    [type |-> "template", data |-> LayoutDocument],
    [type |-> "template", data |-> LayersDocument],
    [type |-> "template", data |-> HyphenDocument],
    [type |-> "template", data |-> UnprintableDocument],
    [type |-> "template", data |-> [template_id |-> "s1_template"]],
    [type |-> "theme", data |-> createEmptyScene("s1").theme] }

BasePaths == {"out/s1", "scenes/scene/scene"}

\* Contexts of finished pipeline runs of the process.
SavedContexts ==
  { handleCreateCanvas(NewContext(<<>>), YellowCanvas.parameters, 0).context,
    handleAddImageLayer(NewContext(<<>>), PhotoLayer.parameters, 0).context }

InitServer ==
  /\ IdlePipeline
  /\ context = JUndefined
  /\ idSeq = 0
  /\ googleFontCache = <<>>

\* The end of a message handler.
Handled(type, components, fs, msgs, meta, result) ==
  /\ Len(events) < MaxMessages
  /\ context' = components
  /\ hist' = fs
  /\ sent' = sent \o msgs
  /\ events' = Append(events, [ev |-> type, meta |-> meta, scene |-> components,
                               result |-> result])
  /\ UNCHANGED <<operations, pc, idx, resolvedParams, error, idSeq, googleFontCache>>

\* The metadata documents of the file system, as a client reads them.
MetadataDocuments ==
  {hist[i].value : i \in {j \in 1..Len(hist) : hist[j].value # JNull
                                               /\ "template" \in DOMAIN hist[j].value}}

\* SCENE_LOADED with msg.data.scene = scene.
SceneLoaded(scene) ==
  LET components == [data |-> loadJsonFile(hist, scene.data),
                     template |-> loadJsonFile(hist, scene.template),
                     theme |-> loadJsonFile(hist, scene.theme)]
  IN
  Handled("SCENE_LOADED", components, hist,
          <<[type |-> "COMPONENTS_LOADED", data |-> components]>>
            \o RenderMessages(tryRenderScene(components)),
          scene, tryRenderScene(components))

\* COMPONENT_UPDATED with msg.data = update.
ComponentUpdated(update) ==
  IF context = JUndefined
  THEN Handled("COMPONENT_UPDATED", context, hist, <<>>, JNull, JNull)
  ELSE Handled("COMPONENT_UPDATED", [context EXCEPT ![update.type] = update.data], hist,
               RenderMessages(tryRenderScene([context EXCEPT ![update.type] = update.data])),
               JNull, tryRenderScene([context EXCEPT ![update.type] = update.data]))

\* CREATE_SCENE
CreateScene(sceneId) ==
  Handled("CREATE_SCENE", createEmptyScene(sceneId), hist,
          <<[type |-> "SCENE_CREATED", data |-> createEmptyScene(sceneId)]>>, JNull, JNull)

\* SAVE_SCENE with msg.data.basePath = basePath.
SaveScene(basePath) ==
  IF /\ context # JUndefined
     /\ context.data # JNull /\ context.template # JNull /\ context.theme # JNull
     /\ "scene_id" \in DOMAIN context.data
  THEN Handled("SAVE_SCENE", context,
               saveSceneToFile(hist, context.data, context.template, context.theme,
                               basePath).fs,
               <<[type |-> "SCENE_SAVED", data |-> basePath]>>,
               saveSceneToFile(hist, context.data, context.template, context.theme,
                               basePath).metadata,
               JNull)
  ELSE Handled("SAVE_SCENE", context, hist,
               <<[type |-> "ERROR", message |-> "Incomplete scene - cannot save"]>>,
               JNull, JNull)

\* executeOperations reaches await saveSceneToDirectory(context) in the process
\* of the server.
PipelineSaves(ctx) ==
  /\ Len(events) < MaxMessages
  /\ hist' = saveSceneToDirectory(hist, ctx).fs
  /\ events' = Append(events, [ev |-> "saveSceneToDirectory",
                               meta |-> saveSceneToDirectory(hist, ctx).metadata,
                               scene |-> SceneOf(ctx), result |-> JNull])
  /\ UNCHANGED <<operations, pc, idx, context, resolvedParams, error, sent, idSeq,
                 googleFontCache>>

NextServer ==
  \/ \E scene \in MetadataDocuments : SceneLoaded(scene)
  \/ \E update \in Updates : ComponentUpdated(update)
  \/ CreateScene("s1")
  \/ \E basePath \in BasePaths : SaveScene(basePath)
  \/ \E ctx \in SavedContexts : PipelineSaves(ctx)

SpecServer == InitServer /\ [][NextServer]_vars

\* The complete scenes tryRenderScene has been called on, with what it returned.
Renderings ==
  {[scene |-> events[i].scene, result |-> events[i].result] :
     i \in {j \in 1..Len(events) :
              /\ events[j].ev \in {"SCENE_LOADED", "COMPONENT_UPDATED"}
              /\ events[j].scene # JUndefined
              /\ events[j].scene.data # JNull
              /\ events[j].scene.template # JNull
              /\ events[j].scene.theme # JNull}}

ItemIds(scene) == {scene.data.data_items[i].id : i \in 1..Len(scene.data.data_items)}

\* Some data_item element of the scene names a data item the data lacks.
HasDangling(scene) == DanglingDataItems(scene.template.elements, ItemIds(scene)) # <<>>

\* Every value the renderer interpolates has a string form.
AllPrintable(scene) ==
  /\ Shaped(scene)
  /\ Stringifies(scene.template.canvas.width)
  /\ Stringifies(scene.template.canvas.height)
  /\ \A i \in 1..Len(AllElements(scene.template.elements)) :
       \A k \in 1..Len(StyleOf(AllElements(scene.template.elements)[i])) :
         Stringifies(StyleOf(AllElements(scene.template.elements)[i])[k].value)
  /\ \A i \in 1..Len(scene.data.data_items) :
       \A f \in DOMAIN scene.data.data_items[i] \cap {"display_name", "content", "image_url"} :
         Stringifies(scene.data.data_items[i][f])

RECURSIVE ExpectedClasses(_, _, _)
\* The class names, in document order, of the elements other than the
\* data_item elements whose data item is missing.
ExpectedClasses(elements, ids, prefix) ==
  IF elements = <<>> THEN <<>>
  ELSE (IF /\ Head(elements).element_type = "data_item"
           /\ Head(elements).data_item_id \notin ids
        THEN <<>>
        ELSE <<ClassName(prefix, Head(elements))>>
               \o ExpectedClasses(ChildrenOrNone(Head(elements)), ids,
                                  ClassName(prefix, Head(elements))))
       \o ExpectedClasses(Tail(elements), ids, prefix)

\* The class names of the markup nodes of html, in order.
ClassesIn(html) ==
  LET at == {i \in 1..(Len(html) - 1) : html[i] \in {"<div class=\"", "<img class=\""}}
  IN [k \in 1..Cardinality(at) |->
        html[(CHOOSE i \in at : Cardinality({j \in at : j <= i}) = k) + 1]]

\* C23: renderScene on a scene with a data_item element whose data_item_id
\* is absent from data.data_items does not fail; the html has no node for
\* that element and has the nodes of all other elements in document order.
C23_MissingDataItemIsSkipped ==
  \A r \in Renderings :
    AllPrintable(r.scene) /\ HasDangling(r.scene) =>
      /\ r.result # JNull
      /\ ClassesIn(r.result.html)
           = ExpectedClasses(r.scene.template.elements, ItemIds(r.scene), "")

C23_Witness ==
  \E r \in Renderings :
    /\ AllPrintable(r.scene) /\ HasDangling(r.scene)
    /\ r.result # JNull
    /\ ClassesIn(r.result.html) = <<"e1", "e3", "e4", "e4-e6", "e7">>

\* Event i is a save of a scene and event i + 1 the SCENE_LOADED message
\* that carries the metadata document written by that save.
SavedThenReloaded(i) ==
  /\ events[i].ev \in {"SAVE_SCENE", "saveSceneToDirectory"}
  /\ events[i].meta # JNull
  /\ events[i + 1].ev = "SCENE_LOADED"
  /\ events[i + 1].meta = events[i].meta

\* C25: saving the data, template and theme of a scene with the metadata
\* document, then loading the three documents through the paths the metadata
\* records and rendering them, gives the html and css that rendering the
\* scene in memory gives.
C25_ReloadRendersTheSame ==
  \A i \in 1..(Len(events) - 1) :
    SavedThenReloaded(i) => events[i + 1].result = tryRenderScene(events[i].scene)

RECURSIVE Replaced(_, _)
\* params with every string of the exact placeholder form, at any depth,
\* replaced by the recorded output of its step; keys and all else as they are.
Replaced(params, outputs) ==
  IF IsStepReference(params)
  THEN RecordedValue(outputs, DecimalValue(Tail(params.chars)))
  ELSE IF params.kind = "array"
  THEN JArr([i \in 1..Len(params.items) |-> Replaced(params.items[i], outputs)])
  ELSE IF params.kind = "object"
  THEN JObj([i \in 1..Len(params.entries) |->
               [key |-> params.entries[i].key,
                value |-> Replaced(params.entries[i].value, outputs)]])
  ELSE params

ReturnedResolveCalls == {i \in ResolveCalls : hist[i].ok}

\* C31: resolveParameters returns its argument with every string equal to
\* "$output_of_step_N", at any depth of nested objects and lists, replaced by
\* the output of step N; non-string values, keys and strings that only
\* contain the token come back unchanged.
C31_ResolvesExactPlaceholdersOnly ==
  \A i \in ReturnedResolveCalls : hist[i].value = Replaced(hist[i].arg, hist[i].outputs)

\* Every step of the list has returned before event j.
AllStepsReturnedBefore(j) ==
  \A k \in 1..Len(operations) :
    \E i \in EventIndices("return") : i < j /\ events[i].pos = k

Before(kind, j) == {i \in EventIndices(kind) : i < j}

\* C32: validation, persistence and preview rendering happen in that order
\* and only after every step has succeeded; persistence is never invoked in a
\* run with a failed step or a failed validation, and a run that exhausts its
\* steps validates exactly once.
C32_ValidateSaveRenderInOrder ==
  /\ \A j \in EventIndices("validate") :
       AllStepsReturnedBefore(j) /\ Before("throw", j) = {}
  /\ \A j \in EventIndices("save") :
       /\ Before("validate", j) # {}
       /\ Before("throw", j) = {}
       /\ AllStepsReturnedBefore(j)
  /\ \A j \in EventIndices("render") : Before("save", j) # {} /\ Before("throw", j) = {}
  /\ Cardinality(EventIndices("validate")) <= 1
  /\ Cardinality(EventIndices("save")) <= 1
  /\ Cardinality(EventIndices("render")) <= 1
  /\ pc \in {"Completed", "Failed"} /\ StepThrows = {}
       => Cardinality(EventIndices("validate")) = 1

C32_Witness ==
  /\ pc = "Completed"
  /\ Len(operations) = 3
  /\ \E i, j, k \in 1..Len(events) :
       /\ i < j /\ j < k
       /\ events[i].ev = "validate" /\ events[j].ev = "save" /\ events[k].ev = "render"

\* A parameter is given when the parameters of the step carry it.
Given(v) == v # JUndefined

\* A run of one add_text_layer step that has returned, and its element.
TextLayerAdded ==
  /\ Len(operations) = 1
  /\ operations[1].operation = "add_text_layer"
  /\ \E i \in EventIndices("return") : events[i].pos = 1
  /\ Len(Roots) = 1

Pixels(v) == IF Given(v) THEN ToString(v.num) \o "px" ELSE "0px"

\* left, top and transform of the element ("(none)" when the style has none).
PlacedAt(left, top, transform) ==
  /\ StyleText(Roots[1], "left") = left
  /\ StyleText(Roots[1], "top") = top
  /\ StyleText(Roots[1], "transform") = transform

\* C33: add_text_layer places the text by anchor > explicit x/y > default:
\* with an anchor x and y are ignored; else with an x or a y left and top are
\* the given pixels (0 for the missing one) and there is no transform; else
\* left and top are 50% with transform translate(-50%, -50%).
C33_AnchorThenXYThenDefault ==
  TextLayerAdded =>
    LET anchor == Get(operations[1].parameters, "anchor")
        x == Get(operations[1].parameters, "x")
        y == Get(operations[1].parameters, "y")
    IN
    IF anchor = JStr(Chars_center)
    THEN PlacedAt("50%", "50%", "translate(calc(-50% + 0px), calc(-50% + 0px))")
    ELSE IF Given(anchor)
    THEN PlacedAt("700px", "584px", "(none)")
    ELSE IF Given(x) \/ Given(y)
    THEN PlacedAt(Pixels(x), Pixels(y), "(none)")
    ELSE PlacedAt("50%", "50%", "translate(-50%, -50%)")

\* An anchor and an x are both given: the element stands where the anchor says.
C33_Witness ==
  /\ TextLayerAdded
  /\ Get(operations[1].parameters, "anchor") = JStr(Dash(Chars_bottom, Chars_right))
  /\ Get(operations[1].parameters, "x") = JNum(10)
  /\ Get(operations[1].parameters, "y") = JNum(20)
  /\ PlacedAt("700px", "584px", "(none)")

\* The declarations of the rule of the class in the css: the chunks between
\* its opening and the next closing brace (none when there is no rule).
RuleOf(css, className) ==
  IF \E i \in 2..(Len(css) - 1) : css[i - 1] = "." /\ css[i] = className /\ css[i + 1] = " {\n"
  THEN LET open == CHOOSE i \in 2..(Len(css) - 1) :
                     css[i - 1] = "." /\ css[i] = className /\ css[i + 1] = " {\n"
           close == CHOOSE j \in (open + 2)..Len(css) :
                      css[j] = "}\n\n" /\ \A k \in (open + 2)..(j - 1) : css[k] # "}\n\n"
       IN SubSeq(css, open + 2, close - 1)
  ELSE <<>>

BackgroundBlock == <<"  position: absolute;\n", "  top: 0;\n", "  left: 0;\n", "  z-index: 0;\n">>
StackedBlock == <<"  position: relative;\n", "  z-index: 1;\n">>

StartsWith(seq, block) == Len(seq) >= Len(block) /\ SubSeq(seq, 1, Len(block)) = block

\* The declarations the renderer adds on its own.
Injected(rule) ==
  {i \in 1..Len(rule) : \E k \in 1..4 : rule[i] = BackgroundBlock[k]}
    \cup {i \in 1..Len(rule) : \E k \in 1..2 : rule[i] = StackedBlock[k]}

IsExactly(element, key, text) ==
  /\ MapHas(element.style, key)
  /\ MapGet(element.style, key).kind = "string"
  /\ Text(MapGet(element.style, key).chars) = text

\* C34: of the elements whose style sets no position, the one with width
\* exactly "100%" and height exactly "100%" gets position absolute, top 0,
\* left 0, z-index 0, every other one position relative, z-index 1; an element
\* whose style sets a position gets neither block.
C34_LayeringOnlyWithoutPosition ==
  \A r \in {q \in Renderings : q.result # JNull} :
    \A i \in 1..Len(r.scene.template.elements) :
      LET element == r.scene.template.elements[i]
          rule == RuleOf(r.result.css, element.element_id)
      IN
      "style" \in DOMAIN element =>
        IF MapHas(element.style, "position")
        THEN Injected(rule) = {}
        ELSE IF IsExactly(element, "width", "100%") /\ IsExactly(element, "height", "100%")
        THEN StartsWith(rule, BackgroundBlock) /\ Injected(rule) = 1..4
        ELSE StartsWith(rule, StackedBlock) /\ Injected(rule) = 1..2

C34_Witness ==
  \E r \in Renderings :
    /\ r.result # JNull
    /\ r.scene.template = LayersDocument
    /\ StartsWith(RuleOf(r.result.css, "bg"), BackgroundBlock)
    /\ StartsWith(RuleOf(r.result.css, "band"), StackedBlock)
    /\ Len(RuleOf(r.result.css, "cover")) > 0
    /\ Injected(RuleOf(r.result.css, "cover")) = {}

Distinct(seq) == \A i, j \in 1..Len(seq) : i # j => seq[i] # seq[j]

IdsOf(elements) == [i \in 1..Len(AllElements(elements)) |-> AllElements(elements)[i].element_id]

\* The class names of the rules of the css, in order.
RuleClassesIn(css) ==
  LET at == {i \in 2..(Len(css) - 1) : css[i - 1] = "." /\ css[i + 1] = " {\n"}
  IN [k \in 1..Cardinality(at) |->
        css[CHOOSE i \in at : Cardinality({j \in at : j <= i}) = k]]

\* C35: for a template tree whose element ids are pairwise distinct, the
\* class names the renderer derives are pairwise distinct across the elements
\* of the tree, in the html and in the rules of the css.
C35_ClassNamesDistinct ==
  \A r \in {q \in Renderings : q.result # JNull} :
    Distinct(IdsOf(r.scene.template.elements)) =>
      /\ Distinct(ClassesIn(r.result.html))
      /\ Distinct(RuleClassesIn(r.result.css))

(***************************************************************************)
(* C36.  removeElementFromTemplate takes out the first element with the    *)
(* id, depth-first and descending only into containers, and returns it     *)
(* with its subtree; every other element stays where it was, in the same   *)
(* order under the same parent.  When no element has the id the result is  *)
(* null and the tree is the same.  The tree is read as its outline: one    *)
(* entry per element, depth-first, with the chain of its ancestors.        *)
(***************************************************************************)
Childless(e) == [f \in DOMAIN e \ {"children"} |-> e[f]]

RECURSIVE Outline(_, _, _)
\* [path, element, parent, open]: the ancestors' ids, the element without its
\* children, whether it holds a children array, and whether every ancestor is
\* a container.
Outline(elements, path, open) ==
  IF elements = <<>> THEN <<>>
  ELSE <<[path |-> path, element |-> Childless(Head(elements)),
          parent |-> "children" \in DOMAIN Head(elements), open |-> open]>>
         \o (IF "children" \in DOMAIN Head(elements)
             THEN Outline(Head(elements).children,
                          Append(path, Head(elements).element_id),
                          open /\ Head(elements).element_type = "container")
             ELSE <<>>)
         \o Outline(Tail(elements), path, open)

\* The entries of an outline that carry the id and can be reached.
Carriers(outline, id) ==
  {k \in 1..Len(outline) : outline[k].open /\ outline[k].element.element_id = id}

FirstCarrier(outline, id) ==
  CHOOSE k \in Carriers(outline, id) : \A m \in Carriers(outline, id) : k <= m

\* The last entry of the subtree that starts at entry k.
SubtreeEnd(outline, k) ==
  CHOOSE e \in k..Len(outline) :
    /\ \A m \in (k + 1)..e : Len(outline[m].path) > Len(outline[k].path)
    /\ e < Len(outline) => Len(outline[e + 1].path) <= Len(outline[k].path)

Without(outline, k, e) ==
  SubSeq(outline, 1, k - 1) \o SubSeq(outline, e + 1, Len(outline))

RemovalAsClaimed(template, id) ==
  LET before == Outline(template.elements, <<>>, TRUE)
      result == removeElementFromTemplate(template, id)
  IN  IF Carriers(before, id) = {}
      THEN result.removed = JNull /\ result.elements = template.elements
      ELSE LET k == FirstCarrier(before, id)
               e == SubtreeEnd(before, k)
           IN  /\ result.removed # JNull
               /\ Outline(<<result.removed>>, before[k].path, TRUE)
                    = SubSeq(before, k, e)
               /\ Outline(result.elements, <<>>, TRUE) = Without(before, k, e)

\* An id no element carries.
NoSuchElement == "no_such_element"

RemovableIds == {Tree[i].element_id : i \in 1..Len(Tree)} \cup {NoSuchElement}

C36_RemovalKeepsTheRest ==
  \A id \in RemovableIds : RemovalAsClaimed(context.template, id)

\* delete_layer has removed an element and the tree still holds a container
\* with a child: removing the child and removing the container are different
\* cuts of the outline.
C36_Witness ==
  /\ "delete_layer" \in ReturnedOperations
  /\ \E i \in 1..Len(Roots) :
       /\ IsContainerWithChildren(Roots[i])
       /\ Roots[i].children # <<>>

(***************************************************************************)
(* C37.  After every step that has ended with a result, and in every run   *)
(* that reports completion, each layer name of layerMap is bound to the    *)
(* id of an element that is in the tree, at any depth.                     *)
(***************************************************************************)
C37_LayerNamesResolve ==
  AfterSuccessfulStep =>
    \A i \in 1..Len(context.layerMap) :
      findElement(Roots, context.layerMap[i].value) # JNull

(***************************************************************************)
(* The pipeline with its scheduling.  executeOperations is one async       *)
(* function: its synchronous stretches run to the next await, and its      *)
(* continuation runs once the awaited promise has settled; every handler   *)
(* call and the save are taken to settle.  So a run that has not ended     *)
(* does not stay at one position for ever: Resumes is the change of        *)
(* position, and it is weakly fair.                                        *)
(***************************************************************************)
Positions ==
  {"Pending", "Loop", "Handler", "Awaiting", "Save", "Render", "Completed", "Failed"}

Resumes ==
  /\ pc \notin {"Completed", "Failed"}
  /\ pc' \in Positions
  /\ idx' \in 0..Len(operations)

SpecFair == Spec /\ WF_<<pc, idx>>(Resumes)

TerminalMessages ==
  {i \in 1..Len(sent) : sent[i].type \in {"EXECUTION_COMPLETE", "EXECUTION_FAILED"}}

InvocationsAt(pos) == {i \in EventIndices("invoke") : events[i].pos = pos}

\* No listed operation has had its handler invoked twice, and no handler has
\* been invoked for anything but a listed operation.
AtMostOneInvocationEach ==
  /\ \A i \in EventIndices("invoke") : events[i].pos \in 1..Len(operations)
  /\ \A pos \in 1..Len(operations) : Cardinality(InvocationsAt(pos)) <= 1

(***************************************************************************)
(* C38.  Every run of executeOperations whose handler calls and save       *)
(* settle sends EXECUTION_COMPLETE or EXECUTION_FAILED; at every point of  *)
(* the run each listed operation has had its handler invoked at most once; *)
(* and nothing happens after the terminal message.                         *)
(***************************************************************************)
C38_RunTerminates ==
  /\ <>(TerminalMessages # {})
  /\ []AtMostOneInvocationEach
  /\ [][TerminalMessages = {}]_vars

\* A run of three operations has ended with a terminal message after the
\* handler of each of them was invoked, one of them suspended on its call.
C38_Witness ==
  /\ TerminalMessages # {}
  /\ Len(operations) = 3
  /\ \A pos \in 1..3 : Cardinality(InvocationsAt(pos)) = 1
  /\ \E pos \in 1..3 : operations[pos].operation \in AwaitsReplicate

(***************************************************************************)
(* One connection of the server, from open to close, with SCENE_LOADED     *)
(* handlers that are suspended on their three file loads.  pc is           *)
(* "Pending" before open, then "Open", then "Closed"; context is the       *)
(* clientScenes entry of the connection (JUndefined: no entry);            *)
(* resolvedParams holds the suspended handlers, each with the scene it was *)
(* sent and the file system as it was when the loads began.                *)
(***************************************************************************)
MaxInFlight == 2

\* A scene whose three files do not exist.
MissingScene == [data |-> "none/data.json", template |-> "none/template.json",
                 theme |-> "none/theme.json"]

open ==
  /\ pc = "Pending"
  /\ pc' = "Open"
  /\ context' = [data |-> JNull, template |-> JNull, theme |-> JNull]
  /\ sent' = Append(sent, [type |-> "CONNECTED",
                           message |-> "Ready to receive scene data"])
  /\ UNCHANGED <<operations, idx, resolvedParams, error, events, idSeq,
                 googleFontCache, hist>>

close ==
  /\ pc = "Open"
  /\ pc' = "Closed"
  /\ context' = JUndefined
  /\ UNCHANGED <<operations, idx, resolvedParams, error, sent, events, idSeq,
                 googleFontCache, hist>>

\* A message can be taken: the connection is open and the bound on the
\* handled messages leaves room for the suspended handlers to end.
Receives ==
  /\ pc = "Open"
  /\ Len(events) + Len(resolvedParams) < MaxMessages

\* SCENE_LOADED up to await Promise.all([...]).
SceneLoadedBegins(scene) ==
  /\ Receives
  /\ Len(resolvedParams) < MaxInFlight
  /\ resolvedParams' = Append(resolvedParams, [scene |-> scene, fs |-> hist])
  /\ UNCHANGED <<operations, pc, idx, context, error, sent, events, idSeq,
                 googleFontCache, hist>>

\* SCENE_LOADED from the await on: the i-th suspended handler resumes.  Each
\* load has read the file system at some time since it began: fs is the file
\* system of then or of now.
SceneLoadedResumes(i, fs) ==
  LET scene == resolvedParams[i].scene
      components == [data |-> loadJsonFile(fs, scene.data),
                     template |-> loadJsonFile(fs, scene.template),
                     theme |-> loadJsonFile(fs, scene.theme)]
  IN
  /\ context' = components
  /\ sent' = sent \o <<[type |-> "COMPONENTS_LOADED", data |-> components]>>
                  \o RenderMessages(tryRenderScene(components))
  /\ events' = Append(events, [ev |-> "SCENE_LOADED", meta |-> scene,
                               scene |-> components,
                               result |-> tryRenderScene(components)])
  /\ resolvedParams' = RemoveAt(resolvedParams, i)
  /\ UNCHANGED <<operations, pc, idx, error, idSeq, googleFontCache, hist>>

NextConnection ==
  \/ open
  \/ close
  \/ \E scene \in MetadataDocuments \cup {MissingScene} : SceneLoadedBegins(scene)
  \/ \E i \in 1..Len(resolvedParams) :
       \E fs \in {resolvedParams[i].fs, hist} : SceneLoadedResumes(i, fs)
  \/ Receives /\ \E update \in Updates : ComponentUpdated(update)
  \/ Receives /\ CreateScene("s1")
  \/ Receives /\ \E basePath \in BasePaths : SaveScene(basePath)

SpecConnection == InitServer /\ [][NextConnection]_vars

(***************************************************************************)
(* C39.  Once close has run for a connection, clientScenes holds no entry  *)
(* for it, whatever handlers of the connection were suspended at the time  *)
(* and resume afterwards.                                                  *)
(***************************************************************************)
C39_NoEntryAfterClose == pc = "Closed" => context = JUndefined

(***************************************************************************)
(* The renderer the interactive demo embeds in its page                    *)
(* (generateBrowserRenderer).  Its html half repeats the html half of the  *)
(* renderer module statement for statement, so it is generateHTML; its css *)
(* half has its own convertStyleToCSS.                                     *)
(***************************************************************************)
\* convertStyleToCSS of the page: the layering block is chosen by isFullSize
\* alone.
BrowserConvertStyleToCSS(style, theme) ==
  LET isFullSize == Is100Percent(style, "width") /\ Is100Percent(style, "height") IN
  (IF isFullSize
   THEN <<"  position: absolute;\n", "  top: 0;\n", "  left: 0;\n", "  z-index: 0;\n">>
   ELSE <<"  position: relative;\n", "  z-index: 1;\n">>)
  \o StyleEntriesCSS(style, theme)

RECURSIVE BrowserGenerateElementCSS(_, _, _)
\* generateElementCSS of the page, over a list of elements.
BrowserGenerateElementCSS(elements, theme, prefix) ==
  IF elements = <<>> THEN <<>>
  ELSE (IF "style" \in DOMAIN Head(elements)
           /\ BrowserConvertStyleToCSS(Head(elements).style, theme) # <<>>
        THEN <<".", ClassName(prefix, Head(elements)), " {\n">>
               \o BrowserConvertStyleToCSS(Head(elements).style, theme) \o <<"}\n\n">>
        ELSE <<>>)
       \o BrowserGenerateElementCSS(ChildrenOrNone(Head(elements)), theme,
                                    ClassName(prefix, Head(elements)))
       \o BrowserGenerateElementCSS(Tail(elements), theme, prefix)

\* renderScene of the page, with its generateCSS: [threw, html, css].
BrowserRenderScene(scene) ==
  LET css == FontImports(scene.theme.font_palette) \o <<"\n\n">>
               \o <<".scene-container {\n  width: ">>
               \o Interpolate(scene.template.canvas.width)
               \o <<"px;\n  height: ">> \o Interpolate(scene.template.canvas.height)
               \o <<"px;\n  position: relative;\n  overflow: hidden;\n  box-sizing: border-box;\n}\n\n">>
               \o <<".scene-container * {\n  box-sizing: border-box;\n}\n\n">>
               \o BrowserGenerateElementCSS(scene.template.elements, scene.theme, "")
      html == generateHTML(scene.template, scene.data)
  IN
  IF ~Shaped(scene) THEN [threw |-> TRUE, html |-> <<>>, css |-> <<>>]
  ELSE IF IsAbrupt(css) \/ IsAbrupt(html)
  THEN [threw |-> TRUE, html |-> <<>>, css |-> <<>>]
  ELSE [threw |-> FALSE, html |-> html, css |-> css]

(***************************************************************************)
(* C40.  On every scene the server has rendered, the renderer of the       *)
(* interactive demo returns the html and the css that renderScene          *)
(* returns, and throws where renderScene throws.                           *)
(***************************************************************************)
C40_BrowserRendererAgrees ==
  \A r \in Renderings : BrowserRenderScene(r.scene) = renderScene(r.scene)

====
